---- MODULE Spec2Model ----
(***************************************************************************)
(* Model of the routing-and-aggregation core: the multi-provider router,   *)
(* the room executor and the knowledge synthesizer.                        *)
(*                                                                         *)
(* JavaScript strings are sequences of one-character strings, so that the  *)
(* formatting and parsing of execution ids and file names is computed the  *)
(* way the code computes it.                                               *)
(*                                                                         *)
(* An executeInRoom invocation is split at its await: the part up to the   *)
(* first await runs when the call is made, the rest when the provider      *)
(* settles.  Observers are the listeners the command line registers: they  *)
(* log and return, so emit is the append of the notification to `events`.  *)
(***************************************************************************)
EXTENDS Integers, Sequences, FiniteSets, TLC

(***************************************************************************)
(* Bounds                                                                  *)
(***************************************************************************)
\* Date.now() ranges over StartTime..MaxTime
MaxTime == 10

\* total number of executeInRoom invocations in one behaviour
MaxCalls == 2

\* number of tasks handed to one executeParallel call
MaxTasks == 2

\* number of executeParallel invocations in one behaviour
MaxParallel == 1

\* the clock value at construction
StartTime == 9

\* number of output files in the directory the synthesizer starts from
MaxSynthFiles == 2

\* longest keyword list given to inferTaskType on its own
MaxKeywords == 3

(***************************************************************************)
(* String primitives                                                       *)
(***************************************************************************)
DigitChars == <<"0", "1", "2", "3", "4", "5", "6", "7", "8", "9">>

IsDigit(c) == \E i \in 1..10 : DigitChars[i] = c

DigitVal(c) == (CHOOSE i \in 1..10 : DigitChars[i] = c) - 1

RECURSIVE NumToStr(_)
\* template-literal conversion of a non-negative integer: `${Date.now()}`
NumToStr(n) ==
  IF n < 10 THEN <<DigitChars[n + 1]>>
  ELSE NumToStr(n \div 10) \o <<DigitChars[(n % 10) + 1]>>

\* JavaScript numbers as far as the model needs them: NaN or an integer
NaN == [nan |-> TRUE, val |-> 0]

Num(n) == [nan |-> FALSE, val |-> n]

RECURSIVE DigitsValue(_, _)
DigitsValue(s, acc) ==
  IF s = <<>> \/ ~IsDigit(Head(s)) THEN acc
  ELSE DigitsValue(Tail(s), acc * 10 + DigitVal(Head(s)))

\* parseInt(x, 10) where x is <<>> (undefined) or <<s>> (a string)
ParseInt(x) ==
  IF x = <<>> THEN NaN
  ELSE LET s == x[1]
           body == IF s # <<>> /\ Head(s) = "+" THEN Tail(s) ELSE s
       IN IF body = <<>> \/ ~IsDigit(Head(body)) THEN NaN
          ELSE Num(DigitsValue(body, 0))

EndsWith(s, p) ==
  /\ Len(p) <= Len(s)
  /\ SubSeq(s, Len(s) - Len(p) + 1, Len(s)) = p

\* String.prototype.indexOf, 1-based, 0 when absent
IndexOf(s, p) ==
  LET hits == {i \in 1..(Len(s) - Len(p) + 1) : SubSeq(s, i, i + Len(p) - 1) = p}
  IN IF Len(p) > Len(s) \/ hits = {} THEN 0
     ELSE CHOOSE i \in hits : \A j \in hits : i <= j

Includes(s, p) == p = <<>> \/ IndexOf(s, p) # 0

\* String.prototype.replace with a string pattern: first occurrence only
ReplaceFirst(s, p, r) ==
  LET i == IndexOf(s, p)
  IN IF p = <<>> THEN r \o s
     ELSE IF i = 0 THEN s
     ELSE SubSeq(s, 1, i - 1) \o r \o SubSeq(s, i + Len(p), Len(s))

RECURSIVE SplitOn(_, _, _)
\* String.prototype.split with a one-character separator
SplitOn(s, sep, cur) ==
  IF s = <<>> THEN <<cur>>
  ELSE IF Head(s) = sep THEN <<cur>> \o SplitOn(Tail(s), sep, <<>>)
  ELSE SplitOn(Tail(s), sep, Append(cur, Head(s)))

Split(s, sep) == SplitOn(s, sep, <<>>)

\* parts[i] of a JavaScript array, 0-based: <<>> is undefined
At(parts, i) == IF i + 1 <= Len(parts) THEN <<parts[i + 1]>> ELSE <<>>

(***************************************************************************)
(* Provider names, environment variables, texts                            *)
(***************************************************************************)
claude == <<"c", "l", "a", "u", "d", "e">>

openai == <<"o", "p", "e", "n", "a", "i">>

\* a name that registerRoom accepts like any other string
my_llm == <<"m", "y", "-", "l", "l", "m">>

Providers == {claude, my_llm}

gemini == <<"g", "e", "m", "i", "n", "i">>

grok == <<"g", "r", "o", "k">>

ANTHROPIC_API_KEY == <<"A", "N", "T", "H", "R", "O", "P", "I", "C", "_", "A", "P", "I", "_", "K", "E", "Y">>

OPENAI_API_KEY == <<"O", "P", "E", "N", "A", "I", "_", "A", "P", "I", "_", "K", "E", "Y">>

GOOGLE_API_KEY == <<"G", "O", "O", "G", "L", "E", "_", "A", "P", "I", "_", "K", "E", "Y">>

XAI_API_KEY == <<"X", "A", "I", "_", "A", "P", "I", "_", "K", "E", "Y">>

\* the environment variables a behaviour may have set (to a non-empty value)
EnvVars == {ANTHROPIC_API_KEY}

\* provider completions (the text adapter.execute resolves with)
Docs == {<<"#", " ", "P", "l", "a", "n", "\n", "\n", "#", "#", " ", "R", "e", "c", "o", "m", "m", "e", "n", "d", "a", "t", "i", "o", "n", "s", "\n", "-", " ", "d", "o", " ", "X", "\n">>}

\* task texts handed to the executor
ExecTasks == {<<"B", "u", "i", "l", "d", " ", "i", "t">>}

VARIABLES
  now,         \* Date.now()
  env,         \* names of the environment variables that are set
  rooms,       \* RoomExecutor.rooms: the providers with a registered room
  calls,       \* every executeInRoom invocation, with its local `execution`
  executions,  \* RoomExecutor.executions: execution id -> index into calls
  files,       \* the working directory: file name -> content
  events,      \* notifications delivered to observers, in emission order
  pars,        \* every executeParallel invocation, with its Promise.all
  config,      \* MultiProviderRouter.config: the parsed routing configuration
  router,      \* the router's construction: "new", "ready" or "failed"
  enabledProviders,  \* MultiProviderRouter.enabledProviders
  analysis,    \* the TaskAnalysis the last analyzeTask call returned
  workDir,     \* existsSync(workDir): the working directory exists
  cli,         \* the command line process: its arguments, options, position
  synth,       \* the knowledge synthesizer's last run() / collectOutputs()
  request      \* the last ProviderAdapter.execute call: options and body sent

routerVars == <<config, router, enabledProviders, analysis>>

cliVars == <<workDir, cli, synth, request>>

vars == <<now, env, rooms, calls, executions, files, events, pars, routerVars,
          cliVars>>

(***************************************************************************)
(* Provider adapter                                                        *)
(***************************************************************************)
PROVIDER_CONFIG ==
  (claude :> [envVar |-> ANTHROPIC_API_KEY]) @@
  (openai :> [envVar |-> OPENAI_API_KEY]) @@
  (gemini :> [envVar |-> GOOGLE_API_KEY]) @@
  (grok :> [envVar |-> XAI_API_KEY])

\* a constructor that skips a missing credential instead of throwing
AdapterConstructorError_SkipsCredential(provider, e) ==
  IF provider \notin DOMAIN PROVIDER_CONFIG
  THEN <<<<"U", "n", "k", "n", "o", "w", "n", " ", "p", "r", "o", "v", "i", "d", "e", "r", ":", " ">> \o provider>>
  ELSE <<>>

\* new ProviderAdapter(provider): <<>> when it succeeds, else <<message>>
AdapterConstructorError(provider, e) ==
  IF provider \notin DOMAIN PROVIDER_CONFIG
  THEN <<<<"U", "n", "k", "n", "o", "w", "n", " ", "p", "r", "o", "v", "i", "d", "e", "r", ":", " ">> \o provider>>
  ELSE IF PROVIDER_CONFIG[provider].envVar \notin e
  THEN <<<<"A", "P", "I", " ", "k", "e", "y", " ", "n", "o", "t", " ", "f", "o", "u", "n", "d", ":", " ">> \o PROVIDER_CONFIG[provider].envVar>>
  ELSE <<>>

ApiErrorPrefix ==
  (claude :> <<"A", "n", "t", "h", "r", "o", "p", "i", "c">>) @@ (openai :> <<"O", "p", "e", "n", "A", "I">>) @@
  (gemini :> <<"G", "e", "m", "i", "n", "i">>) @@ (grok :> <<"G", "r", "o", "k">>)

\* the messages adapter.execute can reject with: a non-success HTTP status
\* (status and body verbatim) or a transport error thrown by fetch
ExecuteErrors(provider) ==
  { ApiErrorPrefix[provider] \o <<" ", "A", "P", "I", " ", "e", "r", "r", "o", "r", ":", " ", "5", "0", "0", " ", "-", " ", "d", "o", "w", "n">>,
    <<"f", "e", "t", "c", "h", " ", "f", "a", "i", "l", "e", "d">> }

\* every error message the try block of executeInRoom can catch for a
\* provider: the constructor's when it throws, else those of execute
RejectMessages(provider, e) ==
  LET ctor == AdapterConstructorError(provider, e)
  IN IF ctor # <<>> THEN {ctor[1]} ELSE ExecuteErrors(provider)

\* no execute call yet
NoRequest ==
  [provider |-> <<>>, options |-> [maxTokens |-> <<>>, temperature |-> <<>>],
   body |-> <<>>]

\* temperatures are in hundredths: 0.7 is 70
DefaultTemperature == 70

DefaultMaxTokens == 4096

\* the max_tokens / maxOutputTokens and temperature fields of the body
\* execute sends for the provider; x || d is d when x is undefined or 0;
\* the Anthropic body has no temperature field
RequestBody(provider, options) ==
  LET orDefault(x, d) == IF x = <<>> \/ x[1] = 0 THEN d ELSE x[1]
  IN [maxTokens |-> orDefault(options.maxTokens, DefaultMaxTokens),
      temperature |-> IF provider = claude THEN <<>>
                      ELSE <<orDefault(options.temperature, DefaultTemperature)>>]

(***************************************************************************)
(* Room executor                                                           *)
(***************************************************************************)
ExecutionId(provider, t) == provider \o <<"-">> \o NumToStr(t)

OutputFileName(executionId) == <<"a", "g", "e", "n", "t", "-">> \o executionId \o <<"-", "o", "u", "t", "p", "u", "t", ".", "m", "d">>

FlagFileName(executionId) == <<"a", "g", "e", "n", "t", "-">> \o executionId \o <<"-", "c", "o", "m", "p", "l", "e", "t", "e", ".", "f", "l", "a", "g">>

ToISOString(t) == NumToStr(t) \o <<"Z">>

FAILED == <<"F", "A", "I", "L", "E", "D">>

ErrorOutput(provider, message) ==
  <<"#", " ", "E", "x", "e", "c", "u", "t", "i", "o", "n", " ", "F", "a", "i", "l", "e", "d", "\n", "\n", "P", "r", "o", "v", "i", "d", "e", "r", ":", " ">> \o provider \o <<"\n", "E", "r", "r", "o", "r", ":", " ">> \o message \o <<"\n">>

NoRoomError(provider) == <<"N", "o", " ", "r", "o", "o", "m", " ", "r", "e", "g", "i", "s", "t", "e", "r", "e", "d", " ", "f", "o", "r", " ", "p", "r", "o", "v", "i", "d", "e", "r", ":", " ">> \o provider

\* writeFileSync
WriteFile(fs, name, content) ==
  [f \in (DOMAIN fs) \cup {name} |-> IF f = name THEN content ELSE fs[f]]

\* Map.prototype.set
MapSet(m, k, v) ==
  [x \in (DOMAIN m) \cup {k} |-> IF x = k THEN v ELSE m[x]]

\* the settlement of the promise adapter.execute returned (or of the adapter's
\* construction): pending, resolved with a text, rejected with a message
NoReply == [state |-> "pending", value |-> <<>>]

NoResult ==
  [roomId |-> <<>>, provider |-> <<>>, success |-> FALSE, output |-> <<>>,
   duration |-> 0, outputFile |-> <<>>]

Event(type, provider, executionId, task, success, error, n, ok, ko) ==
  [type |-> type, provider |-> provider, executionId |-> executionId,
   task |-> task, success |-> success, error |-> error,
   count |-> n, successful |-> ok, failed |-> ko]

\* an executeInRoom that records and announces the execution before it
\* looks for the room
ExecuteInRoomBegin_RecordFirst(st, provider, task, parId, slot, t) ==
  LET executionId == ExecutionId(provider, t)
      k == Len(st.calls) + 1
      missing == provider \notin rooms
  IN [calls |-> Append(st.calls,
        [provider |-> provider, task |-> task, parId |-> parId,
         slot |-> slot,
         pc |-> IF missing THEN "thrown" ELSE "awaiting",
         thrown |-> IF missing THEN NoRoomError(provider) ELSE <<>>,
         reply |-> NoReply,
         id |-> IF missing THEN <<>> ELSE executionId,
         status |-> IF missing THEN "none" ELSE "running",
         startTime |-> IF missing THEN 0 ELSE t,
         endTime |-> 0, output |-> <<>>, error |-> <<>>,
         ret |-> NoResult]),
      executions |-> MapSet(st.executions, executionId, k),
      events |-> Append(st.events,
        Event("room:start", provider, executionId, task, FALSE, <<>>,
              0, 0, 0))]

\* executeInRoom up to its first await: the room lookup, the id, the record
\* and the start notification.  st = [calls, executions, events]; slot is 0
\* for a direct call and the task's position for a call made by
\* executeParallel number parId.
ExecuteInRoomBegin(st, provider, task, parId, slot, t) ==
  IF provider \notin rooms
  THEN [st EXCEPT !.calls = Append(@,
          [provider |-> provider, task |-> task, parId |-> parId,
           slot |-> slot,
           pc |-> "thrown", thrown |-> NoRoomError(provider),
           reply |-> NoReply,
           id |-> <<>>, status |-> "none", startTime |-> 0, endTime |-> 0,
           output |-> <<>>, error |-> <<>>, ret |-> NoResult])]
  ELSE LET executionId == ExecutionId(provider, t)
           k == Len(st.calls) + 1
       IN [calls |-> Append(st.calls,
             [provider |-> provider, task |-> task, parId |-> parId,
           slot |-> slot,
              pc |-> "awaiting", thrown |-> <<>>, reply |-> NoReply,
              id |-> executionId, status |-> "running", startTime |-> t,
              endTime |-> 0, output |-> <<>>, error |-> <<>>,
              ret |-> NoResult]),
           executions |-> MapSet(st.executions, executionId, k),
           events |-> Append(st.events,
             Event("room:start", provider, executionId, task, FALSE, <<>>,
                   0, 0, 0))]

RoomResult(c, success, output) ==
  [roomId |-> c.id, provider |-> c.provider, success |-> success,
   output |-> output, duration |-> now - c.startTime,
   outputFile |-> OutputFileName(c.id)]

\* a Promise.all that collects the values in the order the promises settle
PromiseAllResolveElement_SettleOrder(p, slot, value) ==
  [p EXCEPT !.values[Len(p.tasks) - p.remaining + 1] = value,
            !.remaining = @ - 1]

\* the resolve-element function Promise.all attaches to promise number
\* `slot`: the value goes to its own index
PromiseAllResolveElement(p, slot, value) ==
  [p EXCEPT !.values[slot] = value, !.remaining = @ - 1]

\* the effect of a call's return on the Promise.all that waits for it
Settle(ps, c, value) ==
  IF c.parId = 0 THEN ps
  ELSE [ps EXCEPT ![c.parId] = PromiseAllResolveElement(@, c.slot, value)]

\* executeInRoom after adapter.execute resolved with `result`
ExecuteInRoomSucceed(k, result) ==
  LET c == calls[k]
      ret == RoomResult(c, TRUE, result)
  IN /\ files' = WriteFile(WriteFile(files, OutputFileName(c.id), result),
                           FlagFileName(c.id), ToISOString(now))
     /\ calls' = [calls EXCEPT ![k] =
                    [c EXCEPT !.reply = [state |-> "resolved", value |-> result],
                              !.status = "completed", !.endTime = now,
                              !.output = result, !.pc = "returned",
                              !.ret = ret]]
     /\ events' = Append(events,
                     Event("room:complete", c.provider, c.id, <<>>, TRUE,
                           <<>>, 0, 0, 0))
     /\ pars' = Settle(pars, c, ret)

\* an executeInRoom without the catch block: the error leaves the call
ExecuteInRoomFail_Rethrow(k, message) ==
  LET c == calls[k]
  IN /\ calls' = [calls EXCEPT ![k] =
                    [c EXCEPT !.reply = [state |-> "rejected", value |-> message],
                              !.pc = "thrown", !.thrown = message]]
     /\ pars' = IF c.parId = 0 THEN pars
                ELSE [pars EXCEPT ![c.parId].rejected = TRUE,
                                  ![c.parId].reason = message]
     /\ UNCHANGED <<files, events>>

\* executeInRoom's catch block, entered with error.message = message
ExecuteInRoomFail(k, message) ==
  LET c == calls[k]
      errorOutput == ErrorOutput(c.provider, message)
      ret == RoomResult(c, FALSE, errorOutput)
  IN /\ files' = WriteFile(WriteFile(files, OutputFileName(c.id), errorOutput),
                           FlagFileName(c.id), FAILED)
     /\ calls' = [calls EXCEPT ![k] =
                    [c EXCEPT !.reply = [state |-> "rejected", value |-> message],
                              !.status = "failed", !.endTime = now,
                              !.error = message, !.pc = "returned",
                              !.ret = ret]]
     /\ events' = Append(events,
                     Event("room:complete", c.provider, c.id, <<>>, FALSE,
                           message, 0, 0, 0))
     /\ pars' = Settle(pars, c, ret)

RECURSIVE LaunchAll(_, _, _, _, _)
\* tasks.map(t => this.executeInRoom(...)): every call runs to its first
\* await, in task order; ts[i] is the clock value call i reads
LaunchAll(st, tasks, parId, ts, i) ==
  IF i > Len(tasks) THEN st
  ELSE LaunchAll(ExecuteInRoomBegin(st, tasks[i].provider, tasks[i].task,
                                    parId, i, ts[i]),
                 tasks, parId, ts, i + 1)

(***************************************************************************)
(* Multi-provider router                                                   *)
(***************************************************************************)
UpperCase == <<"A", "B", "C", "D", "E", "F", "G", "H", "I", "J", "K", "L", "M", "N", "O", "P", "Q", "R", "S", "T", "U", "V", "W", "X", "Y", "Z">>

LowerCase == <<"a", "b", "c", "d", "e", "f", "g", "h", "i", "j", "k", "l", "m", "n", "o", "p", "q", "r", "s", "t", "u", "v", "w", "x", "y", "z">>

\* String.prototype.toLowerCase on the characters the model uses
ToLowerCase(s) ==
  [i \in 1..Len(s) |->
     IF \E j \in 1..Len(UpperCase) : UpperCase[j] = s[i]
     THEN LowerCase[CHOOSE j \in 1..Len(UpperCase) : UpperCase[j] = s[i]]
     ELSE s[i]]

IsSpace(c) == c \in {" ", "\t", "\n"}

RECURSIVE SplitSpaces(_, _, _)
\* String.prototype.split(/\s+/): a run of white space is one separator;
\* inRun says that the previous character was white space
SplitSpaces(s, cur, inRun) ==
  IF s = <<>> THEN <<cur>>
  ELSE IF IsSpace(Head(s))
       THEN IF inRun THEN SplitSpaces(Tail(s), cur, TRUE)
            ELSE <<cur>> \o SplitSpaces(Tail(s), <<>>, TRUE)
  ELSE SplitSpaces(Tail(s), Append(cur, Head(s)), FALSE)

\* filter of a sequence, order kept
RECURSIVE SelectIdx(_, _, _)
SelectIdx(seq, keep, i) ==
  IF i > Len(seq) THEN <<>>
  ELSE (IF i \in keep THEN <<seq[i]>> ELSE <<>>) \o SelectIdx(seq, keep, i + 1)

SeqContains(seq, x) == \E i \in 1..Len(seq) : seq[i] = x

testing == <<"t", "e", "s", "t", "i", "n", "g">>

code_generation == <<"c", "o", "d", "e", "_", "g", "e", "n", "e", "r", "a", "t", "i", "o", "n">>

multimodal == <<"m", "u", "l", "t", "i", "m", "o", "d", "a", "l">>

real_time == <<"r", "e", "a", "l", "_", "t", "i", "m", "e">>

reasoning == <<"r", "e", "a", "s", "o", "n", "i", "n", "g">>

NoConfig ==
  [providers |-> <<>>, keyword_to_provider |-> <<>>, task_type_mapping |-> <<>>,
   parallel_execution |-> [enabled |-> FALSE, max_parallel_rooms |-> 0]]

NoAnalysis ==
  [task |-> <<>>, keywords |-> <<>>, taskType |-> <<>>, routes |-> <<>>,
   parallelizable |-> FALSE]

\* a validation that trusts the enabled flag and does not look at the
\* environment
ValidateProviders_IgnoresEnv(cfg, e) ==
  SelectIdx([i \in 1..Len(cfg.providers) |-> cfg.providers[i].name],
            {i \in 1..Len(cfg.providers) : cfg.providers[i].enabled},
            1)

\* validateProviders: the enabled providers whose credential variable is
\* set, in the order of the provider table
ValidateProviders(cfg, e) ==
  SelectIdx([i \in 1..Len(cfg.providers) |-> cfg.providers[i].name],
            {i \in 1..Len(cfg.providers) :
               cfg.providers[i].enabled /\ cfg.providers[i].api_key_env \in e},
            1)

\* an availability test that accepts every provider that is named
IsProviderAvailable_Always(provider) == provider # <<>>

\* isProviderAvailable; provider is <<>> (null) or <<name>>
IsProviderAvailable(provider) ==
  provider # <<>> /\ SeqContains(enabledProviders, provider[1])

\* a keyword extraction that wants a word to be the keyword itself
ExtractKeywords_ExactMatch(text) ==
  LET knownKeywords == [i \in 1..Len(config.keyword_to_provider) |->
                          config.keyword_to_provider[i].keyword]
      words == SplitSpaces(ToLowerCase(text), <<>>, FALSE)
  IN SelectIdx(knownKeywords,
               {i \in 1..Len(knownKeywords) :
                  \E w \in 1..Len(words) : words[w] = knownKeywords[i]},
               1)

ExtractKeywords(text) ==
  LET knownKeywords == [i \in 1..Len(config.keyword_to_provider) |->
                          config.keyword_to_provider[i].keyword]
      words == SplitSpaces(ToLowerCase(text), <<>>, FALSE)
  IN SelectIdx(knownKeywords,
               {i \in 1..Len(knownKeywords) :
                  \E w \in 1..Len(words) : Includes(words[w], knownKeywords[i])},
               1)

\* an inference that lets the first keyword decide
InferTaskType_FirstKeyword(keywords) ==
  LET category(k) ==
        IF k \in {<<"t", "e", "s", "t">>, <<"v", "a", "l", "i", "d", "a", "t", "e">>, <<"v", "e", "r", "i", "f", "y">>} THEN testing
        ELSE IF k \in {<<"c", "o", "d", "e">>, <<"b", "u", "i", "l", "d">>, <<"i", "m", "p", "l", "e", "m", "e", "n", "t">>} THEN code_generation
        ELSE IF k \in {<<"i", "m", "a", "g", "e">>, <<"d", "e", "s", "i", "g", "n">>, <<"v", "i", "s", "u", "a", "l">>} THEN multimodal
        ELSE IF k \in {<<"r", "e", "a", "l", "-", "t", "i", "m", "e">>, <<"n", "e", "w", "s">>, <<"c", "u", "r", "r", "e", "n", "t">>, <<"l", "a", "t", "e", "s", "t">>, <<"l", "i", "v", "e">>}
        THEN real_time
        ELSE reasoning
  IN IF keywords = <<>> THEN reasoning ELSE category(keywords[1])

InferTaskType(keywords) ==
  LET some(list) == \E i \in 1..Len(keywords) : keywords[i] \in list
  IN IF some({<<"t", "e", "s", "t">>, <<"v", "a", "l", "i", "d", "a", "t", "e">>, <<"v", "e", "r", "i", "f", "y">>}) THEN testing
     ELSE IF some({<<"c", "o", "d", "e">>, <<"b", "u", "i", "l", "d">>, <<"i", "m", "p", "l", "e", "m", "e", "n", "t">>}) THEN code_generation
     ELSE IF some({<<"i", "m", "a", "g", "e">>, <<"d", "e", "s", "i", "g", "n">>, <<"v", "i", "s", "u", "a", "l">>}) THEN multimodal
     ELSE IF some({<<"r", "e", "a", "l", "-", "t", "i", "m", "e">>, <<"n", "e", "w", "s">>, <<"c", "u", "r", "r", "e", "n", "t">>, <<"l", "a", "t", "e", "s", "t">>, <<"l", "i", "v", "e">>}) THEN real_time
     ELSE IF some({<<"r", "e", "a", "s", "o", "n">>, <<"a", "n", "a", "l", "y", "z", "e">>, <<"e", "x", "p", "l", "a", "i", "n">>, <<"p", "l", "a", "n">>}) THEN reasoning
     ELSE reasoning

\* config.routing_rules.keyword_to_provider[keyword]
RuleOf(keyword) ==
  LET i == CHOOSE j \in 1..Len(config.keyword_to_provider) :
             config.keyword_to_provider[j].keyword = keyword
  IN config.keyword_to_provider[i]

\* confidences are in hundredths: 0.7 is 70
TypeConfidence == 70

DefaultConfidence == 50

RECURSIVE KeywordRoutes_NoDedup(_, _, _)
\* the keyword loop without the seenProviders test
KeywordRoutes_NoDedup(keywords, routes, seenProviders) ==
  IF keywords = <<>> THEN routes
  ELSE LET keyword == Head(keywords)
           rule == RuleOf(keyword)
       IN IF IsProviderAvailable(<<rule.primary>>)
          THEN KeywordRoutes_NoDedup(Tail(keywords),
                 Append(routes,
                   [provider |-> rule.primary, confidence |-> rule.confidence,
                    reason |-> <<"K", "e", "y", "w", "o", "r", "d", " ", "'">> \o keyword \o <<"'", " ", "m", "a", "t", "c", "h", "e", "d">>,
                    fallback |-> IF IsProviderAvailable(rule.fallback)
                                 THEN rule.fallback ELSE <<>>]),
                 seenProviders \cup {rule.primary})
          ELSE KeywordRoutes_NoDedup(Tail(keywords), routes, seenProviders)

RECURSIVE KeywordRoutes_RawFallback(_, _, _)
\* the keyword loop copying the rule's fallback without asking whether that
\* provider is enabled
KeywordRoutes_RawFallback(keywords, routes, seenProviders) ==
  IF keywords = <<>> THEN routes
  ELSE LET keyword == Head(keywords)
           rule == RuleOf(keyword)
       IN IF IsProviderAvailable(<<rule.primary>>) /\ rule.primary \notin seenProviders
          THEN KeywordRoutes_RawFallback(Tail(keywords),
                 Append(routes,
                   [provider |-> rule.primary, confidence |-> rule.confidence,
                    reason |-> <<"K", "e", "y", "w", "o", "r", "d", " ", "'">> \o keyword \o <<"'", " ", "m", "a", "t", "c", "h", "e", "d">>,
                    fallback |-> rule.fallback]),
                 seenProviders \cup {rule.primary})
          ELSE KeywordRoutes_RawFallback(Tail(keywords), routes, seenProviders)

RECURSIVE KeywordRoutes(_, _, _)
\* determineRoutes, the loop over the keywords
KeywordRoutes(keywords, routes, seenProviders) ==
  IF keywords = <<>> THEN routes
  ELSE LET keyword == Head(keywords)
           rule == RuleOf(keyword)
       IN IF IsProviderAvailable(<<rule.primary>>) /\ rule.primary \notin seenProviders
          THEN KeywordRoutes(Tail(keywords),
                 Append(routes,
                   [provider |-> rule.primary, confidence |-> rule.confidence,
                    reason |-> <<"K", "e", "y", "w", "o", "r", "d", " ", "'">> \o keyword \o <<"'", " ", "m", "a", "t", "c", "h", "e", "d">>,
                    fallback |-> IF IsProviderAvailable(rule.fallback)
                                 THEN rule.fallback ELSE <<>>]),
                 seenProviders \cup {rule.primary})
          ELSE KeywordRoutes(Tail(keywords), routes, seenProviders)

\* determineRoutes, the task-type mapping used when no keyword routed
TypeRoute(routes, taskType) ==
  IF routes = <<>> /\ taskType \in DOMAIN config.task_type_mapping
     /\ IsProviderAvailable(<<config.task_type_mapping[taskType].preferred>>)
  THEN LET mapping == config.task_type_mapping[taskType]
       IN <<[provider |-> mapping.preferred, confidence |-> TypeConfidence,
             reason |-> <<"T", "a", "s", "k", " ", "t", "y", "p", "e", " ", "'">> \o taskType \o <<"'", " ", "p", "r", "e", "f", "e", "r", "r", "e", "d">>,
             fallback |-> IF IsProviderAvailable(mapping.secondary)
                          THEN mapping.secondary ELSE <<>>]>>
  ELSE routes

\* a safety net that only fires when the task type has a mapping
DefaultRoute_OnlyMapped(routes, taskType) ==
  IF routes = <<>> /\ IsProviderAvailable(<<claude>>)
     /\ taskType \in DOMAIN config.task_type_mapping
  THEN <<[provider |-> claude, confidence |-> DefaultConfidence,
          reason |-> <<"D", "e", "f", "a", "u", "l", "t", " ", "f", "a", "l", "l", "b", "a", "c", "k">>, fallback |-> <<>>]>>
  ELSE routes

\* a safety net that offers the first other enabled provider as fallback
DefaultRoute_WithFallback(routes, taskType) ==
  IF routes = <<>> /\ IsProviderAvailable(<<claude>>)
  THEN <<[provider |-> claude, confidence |-> DefaultConfidence,
          reason |-> <<"D", "e", "f", "a", "u", "l", "t", " ", "f", "a", "l", "l", "b", "a", "c", "k">>,
          fallback |-> IF \E i \in 1..Len(enabledProviders) : enabledProviders[i] # claude
                       THEN <<enabledProviders[CHOOSE i \in 1..Len(enabledProviders) :
                                                 enabledProviders[i] # claude]>>
                       ELSE <<>>]>>
  ELSE routes

\* determineRoutes, the safety net: claude when nothing else routed
DefaultRoute(routes, taskType) ==
  IF routes = <<>> /\ IsProviderAvailable(<<claude>>)
  THEN <<[provider |-> claude, confidence |-> DefaultConfidence,
          reason |-> <<"D", "e", "f", "a", "u", "l", "t", " ", "f", "a", "l", "l", "b", "a", "c", "k">>, fallback |-> <<>>]>>
  ELSE routes

DetermineRoutes(keywords, taskType) ==
  DefaultRoute(TypeRoute(KeywordRoutes(keywords, <<>>, {}), taskType), taskType)

\* an analysis that calls a task parallelizable as soon as it has two routes
TaskAnalysis_IgnoresPolicy(text) ==
  LET keywords == ExtractKeywords(text)
      taskType == InferTaskType(keywords)
      routes == DetermineRoutes(keywords, taskType)
  IN [task |-> <<text>>, keywords |-> keywords, taskType |-> taskType,
      routes |-> routes, parallelizable |-> Len(routes) > 1]

\* the value analyzeTask returns (with the task it was given)
TaskAnalysis(text) ==
  LET keywords == ExtractKeywords(text)
      taskType == InferTaskType(keywords)
      routes == DetermineRoutes(keywords, taskType)
  IN [task |-> <<text>>, keywords |-> keywords, taskType |-> taskType,
      routes |-> routes,
      parallelizable |-> Len(routes) > 1 /\ config.parallel_execution.enabled]

CanRunParallel ==
  Len(enabledProviders) > 1 /\ config.parallel_execution.enabled

Min(a, b) == IF a <= b THEN a ELSE b

GetMaxParallelRooms ==
  Min(config.parallel_execution.max_parallel_rooms, Len(enabledProviders))

(***************************************************************************)
(* Router inputs                                                           *)
(***************************************************************************)
\* provider tables: claude and openai configured, each enabled or not; the
\* profile of openai names its own credential variable or shares claude's
ProviderTables ==
  {<<[name |-> claude, api_key_env |-> ANTHROPIC_API_KEY, enabled |-> ec],
     [name |-> openai, api_key_env |-> ko, enabled |-> eo]>> :
     ec \in BOOLEAN, eo \in BOOLEAN,
     ko \in {OPENAI_API_KEY, ANTHROPIC_API_KEY}}

\* rules may name gemini, which no provider table of the model configures
RuleChoices(keyword, confidence) ==
  {[keyword |-> keyword, primary |-> p, fallback |-> f, confidence |-> confidence] :
     p \in {claude, openai, gemini}, f \in {<<>>, <<claude>>, <<openai>>}}

RuleTables ==
  {<<r1, r2>> : r1 \in RuleChoices(<<"t", "e", "s", "t">>, 90), r2 \in RuleChoices(<<"b", "u", "i", "l", "d">>, 60)}

TypeMappings ==
  { <<>>,
    (testing :> [preferred |-> claude, secondary |-> <<openai>>]) @@
    (code_generation :> [preferred |-> openai, secondary |-> <<claude>>]) @@
    (reasoning :> [preferred |-> claude, secondary |-> <<>>]),
    (testing :> [preferred |-> openai, secondary |-> <<>>]) @@
    (reasoning :> [preferred |-> gemini, secondary |-> <<openai>>]) }

ParallelPolicies ==
  {[enabled |-> TRUE, max_parallel_rooms |-> 2],
   [enabled |-> FALSE, max_parallel_rooms |-> 2],
   [enabled |-> TRUE, max_parallel_rooms |-> 1]}

RouterEnvs == SUBSET {ANTHROPIC_API_KEY, OPENAI_API_KEY}

TaskTexts ==
  {<<"B", "u", "i", "l", "d", " ", "t", "e", "s", "t", "s">>, <<"T", "e", "s", "t", " ", "i", "t">>, <<"p", "l", "e", "a", "s", "e", " ", " ", "r", "e", "b", "u", "i", "l", "d">>, <<"h", "e", "l", "l", "o">>, <<>>}

(***************************************************************************)
(* Command line and synthesizer state                                      *)
(***************************************************************************)
\* CLIOptions as parseArgs leaves it when no argument sets a field; parallel
\* is <<>> (undefined), <<TRUE>> or <<FALSE>>, the other flags are tested for
\* truthiness only
NoOptions ==
  [task |-> <<>>, provider |-> <<>>, parallel |-> <<>>, verbose |-> FALSE,
   dryRun |-> FALSE, cleanup |-> FALSE]

\* no command line process
NoCli ==
  [pc |-> "none", argv |-> <<>>, options |-> NoOptions, mode |-> "none",
   reported |-> <<>>, outputPath |-> <<>>, error |-> <<>>]

\* a synthesizer that has not been called
NoSynth ==
  [pc |-> "idle", outputs |-> <<>>, result |-> <<>>, path |-> <<>>,
   thrown |-> <<>>]

(***************************************************************************)
(* Actions                                                                 *)
(***************************************************************************)
Init ==
  /\ now = StartTime
  /\ env \in SUBSET EnvVars
  /\ rooms = {}
  /\ calls = <<>>
  /\ executions = <<>>
  /\ files = <<>>
  /\ events = <<>>
  /\ pars = <<>>
  /\ config = NoConfig
  /\ router = "absent"
  /\ enabledProviders = <<>>
  /\ analysis = NoAnalysis
  /\ workDir = TRUE
  /\ cli = NoCli
  /\ synth = NoSynth
  /\ request = NoRequest

\* the wall clock advances
Tick ==
  /\ now < MaxTime
  /\ now' = now + 1
  /\ UNCHANGED <<env, rooms, calls, executions, files, events, pars, routerVars, cliVars>>

RegisterRoom(provider) ==
  /\ rooms' = rooms \cup {provider}
  /\ UNCHANGED <<now, env, calls, executions, files, events, pars, routerVars, cliVars>>

\* a direct call of executeInRoom, up to its first await
ExecuteInRoom(provider, task) ==
  /\ Len(calls) < MaxCalls
  /\ LET st == ExecuteInRoomBegin(
                 [calls |-> calls, executions |-> executions,
                  events |-> events], provider, task, 0, 0, now)
     IN /\ calls' = st.calls
        /\ executions' = st.executions
        /\ events' = st.events
  /\ UNCHANGED <<now, env, rooms, files, pars, routerVars, cliVars>>

\* the adapter is constructed and adapter.execute resolves
ProviderResolves(k, result) ==
  /\ calls[k].pc = "awaiting"
  /\ AdapterConstructorError(calls[k].provider, env) = <<>>
  /\ ExecuteInRoomSucceed(k, result)
  /\ UNCHANGED <<now, env, rooms, executions, routerVars, cliVars>>

\* the adapter constructor throws, or adapter.execute rejects
ProviderRejects(k, message) ==
  /\ calls[k].pc = "awaiting"
  /\ message \in RejectMessages(calls[k].provider, env)
  /\ ExecuteInRoomFail(k, message)
  /\ UNCHANGED <<now, env, rooms, executions, routerVars, cliVars>>

TaskLists ==
  UNION {[1..n -> [provider : Providers, task : ExecTasks]] : n \in 0..MaxTasks}

\* executeParallel up to `await Promise.all(promises)`
ExecuteParallel(tasks, ts) ==
  /\ Len(pars) < MaxParallel
  /\ Len(calls) + Len(tasks) <= MaxCalls
  /\ \A i \in 1..Len(tasks) :
        /\ now <= ts[i]
        /\ i > 1 => ts[i - 1] <= ts[i]
  /\ LET parId == Len(pars) + 1
         st == LaunchAll(
                 [calls |-> calls, executions |-> executions,
                  events |-> Append(events,
                     Event("parallel:start", <<>>, <<>>, <<>>, FALSE, <<>>,
                           Len(tasks), 0, 0))],
                 tasks, parId, ts, 1)
         promises == [i \in 1..Len(tasks) |-> Len(calls) + i]
         thrown == {i \in 1..Len(tasks) : st.calls[promises[i]].pc = "thrown"}
     IN /\ calls' = st.calls
        /\ executions' = st.executions
        /\ events' = st.events
        /\ pars' = Append(pars,
             [pc |-> "pending", tasks |-> tasks, promises |-> promises,
              values |-> [i \in 1..Len(tasks) |-> NoResult],
              remaining |-> Len(tasks),
              rejected |-> thrown # {},
              reason |-> IF thrown = {} THEN <<>>
                         ELSE st.calls[promises[
                                CHOOSE i \in thrown : \A j \in thrown : i <= j]].thrown,
              results |-> <<>>])
  /\ now' = IF Len(tasks) = 0 THEN now ELSE ts[Len(tasks)]
  /\ UNCHANGED <<env, rooms, files, routerVars, cliVars>>

\* Promise.all fulfilled: executeParallel emits the summary and returns
ParallelResolves(q) ==
  /\ pars[q].pc = "pending"
  /\ ~pars[q].rejected
  /\ pars[q].remaining = 0
  /\ LET results == pars[q].values
         ok == Cardinality({i \in 1..Len(results) : results[i].success})
     IN /\ events' = Append(events,
             Event("parallel:complete", <<>>, <<>>, <<>>, FALSE, <<>>,
                   Len(results), ok, Len(results) - ok))
        /\ pars' = [pars EXCEPT ![q].pc = "resolved", ![q].results = results]
  /\ UNCHANGED <<now, env, rooms, calls, executions, files, routerVars, cliVars>>

\* Promise.all rejected: the await throws out of executeParallel
ParallelRejects(q) ==
  /\ pars[q].pc = "pending"
  /\ pars[q].rejected
  /\ pars' = [pars EXCEPT ![q].pc = "rejected"]
  /\ UNCHANGED <<now, env, rooms, calls, executions, files, events, routerVars, cliVars>>

\* a cleanup that forgets the marker files
CleanupFiles_OutputsOnly(fs) ==
  [f \in {g \in DOMAIN fs : ~EndsWith(g, <<"-", "o", "u", "t", "p", "u", "t", ".", "m", "d">>)} |-> fs[f]]

\* the working directory after cleanup's loop: every file whose name ends in
\* -output.md or -complete.flag is unlinked
CleanupFiles(fs) ==
  [f \in {g \in DOMAIN fs :
            ~(EndsWith(g, <<"-", "o", "u", "t", "p", "u", "t", ".", "m", "d">>) \/ EndsWith(g, <<"-", "c", "o", "m", "p", "l", "e", "t", "e", ".", "f", "l", "a", "g">>))}
     |-> fs[f]]

\* readdirSync(workDir) throws when the directory does not exist
CleanupThrows == ~workDir

Cleanup ==
  /\ files' = IF CleanupThrows THEN files ELSE CleanupFiles(files)
  /\ UNCHANGED <<now, env, rooms, calls, executions, events, pars, routerVars, cliVars>>

Next ==
  \/ Tick
  \/ \E p \in Providers : RegisterRoom(p)
  \/ \E p \in Providers, t \in ExecTasks : ExecuteInRoom(p, t)
  \/ \E k \in 1..Len(calls), d \in Docs : ProviderResolves(k, d)
  \/ \E k \in 1..Len(calls) :
        \E m \in RejectMessages(calls[k].provider, env) : ProviderRejects(k, m)
  \/ \E tasks \in TaskLists :
        \E ts \in [1..Len(tasks) -> now..MaxTime] : ExecuteParallel(tasks, ts)
  \/ \E q \in 1..Len(pars) : ParallelResolves(q)
  \/ \E q \in 1..Len(pars) : ParallelRejects(q)
  \/ Cleanup

Spec == Init /\ [][Next]_vars

\* the provider call of executeInRoom call k settles, one way or the other
ProviderSettles(k) ==
  /\ k \in 1..Len(calls)
  /\ \/ \E d \in Docs : ProviderResolves(k, d)
     \/ \E m \in RejectMessages(calls[k].provider, env) : ProviderRejects(k, m)

\* Spec under the scheduling a claim about termination assumes: every
\* provider call that is awaited settles, and the microtask queue runs the
\* continuation of a settled Promise.all
SpecLive ==
  /\ Spec
  /\ \A k \in 1..MaxCalls : WF_vars(ProviderSettles(k))
  /\ \A q \in 1..MaxParallel :
        WF_vars(/\ q \in 1..Len(pars)
                /\ (ParallelResolves(q) \/ ParallelRejects(q)))

(***************************************************************************)
(* The router on its own: a configuration and an environment are drawn,    *)
(* the router is constructed, tasks are analyzed                           *)
(***************************************************************************)
execVars == <<now, rooms, calls, executions, files, events, pars>>

InitRouter ==
  /\ now = StartTime
  /\ env \in RouterEnvs
  /\ rooms = {}
  /\ calls = <<>>
  /\ executions = <<>>
  /\ files = <<>>
  /\ events = <<>>
  /\ pars = <<>>
  /\ config \in [providers : ProviderTables,
                  keyword_to_provider : RuleTables,
                  task_type_mapping : TypeMappings,
                  parallel_execution : ParallelPolicies]
  /\ router = "new"
  /\ enabledProviders = <<>>
  /\ analysis = NoAnalysis
  /\ workDir = TRUE
  /\ cli = NoCli
  /\ synth = NoSynth
  /\ request = NoRequest

\* new MultiProviderRouter(): validateProviders fills enabledProviders and
\* throws when none is left
ConstructRouter ==
  /\ router = "new"
  /\ enabledProviders' = ValidateProviders(config, env)
  /\ router' = IF Len(enabledProviders') = 0 THEN "failed" ELSE "ready"
  /\ UNCHANGED <<env, config, analysis, execVars, cliVars>>

AnalyzeTask(text) ==
  /\ router = "ready"
  /\ analysis' = TaskAnalysis(text)
  /\ UNCHANGED <<env, config, router, enabledProviders, execVars, cliVars>>

NextRouter ==
  \/ ConstructRouter
  \/ \E text \in TaskTexts : AnalyzeTask(text)

SpecRouter == InitRouter /\ [][NextRouter]_vars

(***************************************************************************)
(* Reads                                                                   *)
(***************************************************************************)
\* getExecution(executionId).status; the map holds a reference to the
\* `execution` object of the call that stored it last
RecordStatus(m, cs, executionId) == cs[m[executionId]].status

Terminal == {"completed", "failed"}

\* readRoomOutput(executionId): <<>> is null
ReadRoomOutput(fs, executionId) ==
  IF OutputFileName(executionId) \in DOMAIN fs
  THEN <<fs[OutputFileName(executionId)]>>
  ELSE <<>>

\* isComplete(executionId)
IsComplete(fs, executionId) == FlagFileName(executionId) \in DOMAIN fs

(***************************************************************************)
(* Knowledge synthesizer                                                   *)
(***************************************************************************)
OutputSuffix == <<"-", "o", "u", "t", "p", "u", "t", ".", "m", "d">>

RECURSIVE Orderings(_)
\* every order in which a directory listing can present a set of names
Orderings(S) ==
  IF S = {} THEN {<<>>}
  ELSE UNION {{<<x>> \o r : r \in Orderings(S \ {x})} : x \in S}

\* readdirSync(workDir).filter(f => f.endsWith('-output.md')): the matching
\* names, in the order the file system lists them
ReadDirOutputs(fs) == Orderings({f \in DOMAIN fs : EndsWith(f, OutputSuffix)})

\* the RoomOutput collectOutputs builds for one file name
ParseOutput(fs, file) ==
  LET parts == Split(ReplaceFirst(file, OutputSuffix, <<>>), "-")
  IN [provider |-> At(parts, 1),
      executionId |-> ReplaceFirst(file, OutputSuffix, <<>>),
      content |-> fs[file],
      timestamp |-> ParseInt(At(parts, 2))]

\* the comparator (a, b) => a.timestamp - b.timestamp as sort uses it: a
\* NaN difference counts as 0
CompareTimestamps(a, b) ==
  IF a.timestamp.nan \/ b.timestamp.nan THEN 0
  ELSE a.timestamp.val - b.timestamp.val

RECURSIVE InsertSorted(_, _)
\* stable insertion from the right: x moves left past every element the
\* comparator puts after it
InsertSorted(sorted, x) ==
  IF sorted = <<>> THEN <<x>>
  ELSE LET n == Len(sorted)
       IN IF CompareTimestamps(sorted[n], x) > 0
          THEN Append(InsertSorted(SubSeq(sorted, 1, n - 1), x), sorted[n])
          ELSE Append(sorted, x)

RECURSIVE SortByTimestamp(_)
SortByTimestamp(outs) ==
  IF outs = <<>> THEN <<>>
  ELSE InsertSorted(SortByTimestamp(SubSeq(outs, 1, Len(outs) - 1)),
                    outs[Len(outs)])

\* collectOutputs() on an existing working directory whose matching files
\* are listed in the order `listing`
CollectOutputs(fs, listing) ==
  SortByTimestamp([i \in 1..Len(listing) |-> ParseOutput(fs, listing[i])])

\* a collectOutputs without the existsSync test: readdirSync throws on a
\* directory that does not exist
CollectOutputsIn_NoExistsTest(exists, fs, listing) ==
  IF ~exists
  THEN [thrown |-> <<<<"E", "N", "O", "E", "N", "T", ":", " ", "n", "o", " ", "s", "u", "c", "h", " ", "f", "i", "l", "e", " ", "o", "r", " ", "d", "i", "r", "e", "c", "t", "o", "r", "y", ",", " ", "s", "c", "a", "n", "d", "i", "r">>>>,
        outputs |-> <<>>]
  ELSE [thrown |-> <<>>, outputs |-> CollectOutputs(fs, listing)]

\* collectOutputs(): the empty list when the working directory does not
\* exist, else the parsed and sorted outputs; nothing in it throws
CollectOutputsIn(exists, fs, listing) ==
  IF ~exists THEN [thrown |-> <<>>, outputs |-> <<>>]
  ELSE [thrown |-> <<>>, outputs |-> CollectOutputs(fs, listing)]

\* the directory listings collectOutputs can see
Listings(exists, fs) == IF ~exists THEN {<<>>} ELSE ReadDirOutputs(fs)

(***************************************************************************)
(* More string primitives (synthesize, writeFinalOutput)                   *)
(***************************************************************************)
RECURSIVE TrimStart(_)
TrimStart(s) ==
  IF s # <<>> /\ IsSpace(Head(s)) THEN TrimStart(Tail(s)) ELSE s

RECURSIVE TrimEnd(_)
TrimEnd(s) ==
  IF s # <<>> /\ IsSpace(s[Len(s)]) THEN TrimEnd(SubSeq(s, 1, Len(s) - 1))
  ELSE s

\* String.prototype.trim
Trim(s) == TrimEnd(TrimStart(s))

\* String.prototype.startsWith
StartsWith(s, p) == Len(p) <= Len(s) /\ SubSeq(s, 1, Len(p)) = p

\* the text p stands in s at the 1-based position i
MatchesAt(s, i, p) ==
  i >= 1 /\ i + Len(p) - 1 <= Len(s) /\ SubSeq(s, i, i + Len(p) - 1) = p

\* String.prototype.substring(a, b), 0-based, end exclusive, clamped
Substring(s, a, b) == SubSeq(s, Min(a, Len(s)) + 1, Min(b, Len(s)))

\* String.prototype.substring(a)
SubstringFrom(s, a) == SubSeq(s, Min(a, Len(s)) + 1, Len(s))

\* String.prototype.toUpperCase on the characters the model uses
ToUpperCase(s) ==
  [i \in 1..Len(s) |->
     IF \E j \in 1..Len(LowerCase) : LowerCase[j] = s[i]
     THEN UpperCase[CHOOSE j \in 1..Len(LowerCase) : LowerCase[j] = s[i]]
     ELSE s[i]]

RECURSIVE Join(_, _)
\* Array.prototype.join
Join(list, sep) ==
  IF list = <<>> THEN <<>>
  ELSE IF Len(list) = 1 THEN list[1]
  ELSE list[1] \o sep \o Join(Tail(list), sep)

RECURSIVE SkipSpaces(_, _)
\* the position after the longest run of white space that starts at i (\s*)
SkipSpaces(s, i) ==
  IF i <= Len(s) /\ IsSpace(s[i]) THEN SkipSpaces(s, i + 1) ELSE i

\* the first position >= from at which p stands in s, 0 when there is none
IndexFrom(s, p, from) ==
  LET hits == {i \in from..(Len(s) - Len(p) + 1) : MatchesAt(s, i, p)}
  IN IF hits = {} THEN 0 ELSE CHOOSE i \in hits : \A j \in hits : i <= j

\* `${x}` of a value that is <<>> (undefined) or <<string>>
Str(x) == IF x = <<>> THEN <<"u", "n", "d", "e", "f", "i", "n", "e", "d">> ELSE x[1]

(***************************************************************************)
(* Knowledge synthesizer: synthesize, writeFinalOutput, run                *)
(***************************************************************************)
\* the end of the line that holds position i: the position of its "\n", or
\* Len(s) + 1
LineEnd(s, i) ==
  LET n == IndexFrom(s, <<"\n">>, i) IN IF n = 0 THEN Len(s) + 1 ELSE n

\* content.match(/^#\s+(.+)$/m) tried at the line start i: <<>> or <<title>>.
\* \s+ is greedy and gives characters back until a character other than
\* "\n" follows it
TitleAt(content, i) ==
  IF ~MatchesAt(content, i, <<"#">>) THEN <<>>
  ELSE LET e == SkipSpaces(content, i + 1)
           starts == {j \in (i + 2)..e : j <= Len(content) /\ content[j] # "\n"}
       IN IF starts = {} THEN <<>>
          ELSE LET j == CHOOSE x \in starts : \A y \in starts : y <= x
               IN <<SubSeq(content, j, LineEnd(content, j) - 1)>>

\* extractTitle: <<>> (null) or <<title>>
ExtractTitle(content) ==
  LET lineStarts == {i \in 1..Len(content) : i = 1 \/ content[i - 1] = "\n"}
      hits == {i \in lineStarts : TitleAt(content, i) # <<>>}
  IN IF hits = {} THEN <<>>
     ELSE TitleAt(content, CHOOSE i \in hits : \A j \in hits : i <= j)

\* the alternatives of (Recommendations?|Next Steps?|Suggestions?), lower case
RecommendationHeadings ==
  {<<"r", "e", "c", "o", "m", "m", "e", "n", "d", "a", "t", "i", "o", "n", "s">>, <<"r", "e", "c", "o", "m", "m", "e", "n", "d", "a", "t", "i", "o", "n">>, <<"n", "e", "x", "t", " ", "s", "t", "e", "p", "s">>, <<"n", "e", "x", "t", " ", "s", "t", "e", "p">>,
   <<"s", "u", "g", "g", "e", "s", "t", "i", "o", "n", "s">>, <<"s", "u", "g", "g", "e", "s", "t", "i", "o", "n">>}

\* /##\s*(Recommendations?|Next Steps?|Suggestions?)\s*\n/i tried at position
\* i: <<>>, or <<p>> with p the position where the captured text starts.  The
\* greedy \s* before \n ends at the last line break of the white space that
\* follows the heading word
RecHeadingAt(content, i) ==
  IF ~MatchesAt(content, i, <<"#", "#">>) THEN <<>>
  ELSE LET j == SkipSpaces(content, i + 2)
           lower == ToLowerCase(content)
           breaks(w) == {n \in (j + Len(w))..(SkipSpaces(content, j + Len(w)) - 1) :
                           content[n] = "\n"}
           ok == {w \in RecommendationHeadings :
                    MatchesAt(lower, j, w) /\ breaks(w) # {}}
       IN IF ok = {} THEN <<>>
          ELSE LET w == CHOOSE x \in ok : TRUE
                   last == CHOOSE n \in breaks(w) : \A m \in breaks(w) : m <= n
               IN <<last + 1>>

\* recMatch[2]: <<>> when the expression does not match, else <<captured>>:
\* the text from the heading's line break up to the first "\n##" or the end
RecSection(content) ==
  LET hits == {i \in 1..Len(content) : RecHeadingAt(content, i) # <<>>}
  IN IF hits = {} THEN <<>>
     ELSE LET i == CHOOSE x \in hits : \A y \in hits : x <= y
              start == RecHeadingAt(content, i)[1]
              stop == IndexFrom(content, <<"\n", "#", "#">>, start)
          IN <<SubSeq(content, start,
                      IF stop = 0 THEN Len(content) ELSE stop - 1)>>

\* the lines of one output that extractRecommendations pushes
RecommendationsOf(output) ==
  LET section == RecSection(output.content)
  IN IF section = <<>> THEN <<>>
     ELSE LET lines == Split(section[1], "\n")
              kept == SelectIdx(lines,
                        {i \in 1..Len(lines) :
                           \/ StartsWith(Trim(lines[i]), <<"-">>)
                           \/ StartsWith(Trim(lines[i]), <<"*">>)}, 1)
          IN [i \in 1..Len(kept) |->
                <<"[">> \o Str(output.provider) \o <<"]", " ">>
                  \o Trim(SubstringFrom(Trim(kept[i]), 1))]

RECURSIVE ExtractRecommendations(_)
ExtractRecommendations(outputs) ==
  IF outputs = <<>> THEN <<>>
  ELSE RecommendationsOf(Head(outputs)) \o ExtractRecommendations(Tail(outputs))

\* the code fence: three grave accents, each written as the character "grave"
Fence == <<"grave", "grave", "grave">>

RECURSIVE CodeBlocks(_, _)
\* content.match of the fenced-block expression with the g flag: the blocks
\* delimited by three backticks, searched from position from
CodeBlocks(content, from) ==
  LET i == IndexFrom(content, Fence, from)
      j == IF i = 0 THEN 0 ELSE IndexFrom(content, Fence, i + 3)
  IN IF j = 0 THEN <<>>
     ELSE <<SubSeq(content, i, j + 2)>> \o CodeBlocks(content, j + 3)

\* only significant code blocks
MinArtifactLength == 100

ArtifactPreview == 50

ArtifactsOf(output) ==
  LET blocks == CodeBlocks(output.content, 1)
      kept == SelectIdx(blocks,
                {i \in 1..Len(blocks) : Len(blocks[i]) > MinArtifactLength}, 1)
  IN [i \in 1..Len(kept) |->
        <<"[">> \o Str(output.provider) \o <<"]", " ">>
          \o Substring(kept[i], 0, ArtifactPreview) \o <<".", ".", ".">>]

RECURSIVE ExtractArtifacts(_)
ExtractArtifacts(outputs) ==
  IF outputs = <<>> THEN <<>>
  ELSE ArtifactsOf(Head(outputs)) \o ExtractArtifacts(Tail(outputs))

SummaryLength == 200

\* content.split('\n\n')[0]
FirstParagraph(content) ==
  LET i == IndexOf(content, <<"\n", "\n">>)
  IN IF i = 0 THEN content ELSE SubSeq(content, 1, i - 1)

\* generateSummary; every provider is a string here
GenerateSummary(outputs) ==
  <<"#", " ", "S", "y", "n", "t", "h", "e", "s", "i", "z", "e", "d", " ", "R", "e", "s", "u", "l", "t", "s", "\n", "\n">> \o
  Join([i \in 1..Len(outputs) |->
          <<"*", "*">> \o ToUpperCase(outputs[i].provider[1]) \o <<"*", "*", ":", " ">>
            \o Substring(FirstParagraph(outputs[i].content), 0, SummaryLength)
            \o <<".", ".", ".">>],
       <<"\n", "\n">>)

\* output.provider.toUpperCase() on an undefined provider
ToUpperCaseOfUndefined ==
  <<"C", "a", "n", "n", "o", "t", " ", "r", "e", "a", "d", " ", "p", "r", "o", "p", "e", "r", "t", "i", "e", "s", " ", "o", "f", " ", "u", "n", "d", "e", "f", "i", "n", "e", "d", " ", "(", "r", "e", "a", "d", "i", "n", "g", " ", "'", "t", "o", "U", "p", "p", "e", "r", "C", "a", "s", "e", "'", ")">>

\* Math.max(...timestamps) - Math.min(...timestamps): NaN as soon as one
\* timestamp is NaN
TotalDuration(outputs) ==
  IF outputs = <<>> THEN Num(0)
  ELSE IF \E i \in 1..Len(outputs) : outputs[i].timestamp.nan THEN NaN
  ELSE LET ts == {outputs[i].timestamp.val : i \in 1..Len(outputs)}
       IN Num((CHOOSE x \in ts : \A y \in ts : y <= x)
              - (CHOOSE x \in ts : \A y \in ts : x <= y))

\* synthesize(outputs) at time t: [thrown |-> <<message>>] when
\* generateSummary throws, else the SynthesisResult
Synthesize(outputs, t) ==
  IF \E i \in 1..Len(outputs) : outputs[i].provider = <<>>
  THEN [thrown |-> <<ToUpperCaseOfUndefined>>, summary |-> <<>>,
        sections |-> <<>>, recommendations |-> <<>>, artifacts |-> <<>>,
        metadata |-> [totalProviders |-> 0, synthesizedAt |-> <<>>,
                      totalDuration |-> Num(0)]]
  ELSE [thrown |-> <<>>,
        summary |-> GenerateSummary(outputs),
        sections |-> [i \in 1..Len(outputs) |->
           [provider |-> outputs[i].provider[1],
            title |-> IF ExtractTitle(outputs[i].content) # <<>>
                      THEN ExtractTitle(outputs[i].content)[1]
                      ELSE Str(outputs[i].provider) \o <<" ", "O", "u", "t", "p", "u", "t">>,
            content |-> outputs[i].content]],
        recommendations |-> ExtractRecommendations(outputs),
        artifacts |-> ExtractArtifacts(outputs),
        metadata |-> [totalProviders |-> Len(outputs),
                      synthesizedAt |-> ToISOString(t),
                      totalDuration |-> TotalDuration(outputs)]]

FinalOutputName == <<"f", "i", "n", "a", "l", "-", "o", "u", "t", "p", "u", "t", ".", "m", "d">>

RECURSIVE Concat(_)
Concat(list) == IF list = <<>> THEN <<>> ELSE Head(list) \o Concat(Tail(list))

\* the text writeFinalOutput writes
FinalOutputContent(result) ==
  result.summary \o <<"\n", "\n">> \o <<"-", "-", "-", "\n", "\n">>
  \o Concat([i \in 1..Len(result.sections) |->
       <<"#", "#", " ">> \o result.sections[i].title \o <<" ", "(">>
         \o ToUpperCase(result.sections[i].provider) \o <<")", "\n", "\n">>
         \o result.sections[i].content \o <<"\n", "\n">> \o <<"-", "-", "-", "\n", "\n">>])
  \o (IF Len(result.recommendations) > 0
      THEN <<"#", "#", " ", "A", "g", "g", "r", "e", "g", "a", "t", "e", "d", " ", "R", "e", "c", "o", "m", "m", "e", "n", "d", "a", "t", "i", "o", "n", "s", "\n", "\n">>
           \o Concat([i \in 1..Len(result.recommendations) |->
                <<"-", " ">> \o result.recommendations[i] \o <<"\n">>])
           \o <<"\n">>
      ELSE <<>>)
  \o <<"#", "#", " ", "S", "y", "n", "t", "h", "e", "s", "i", "s", " ", "M", "e", "t", "a", "d", "a", "t", "a", "\n", "\n">>
  \o <<"-", " ", "*", "*", "P", "r", "o", "v", "i", "d", "e", "r", "s", " ", "U", "s", "e", "d", "*", "*", ":", " ">> \o NumToStr(result.metadata.totalProviders) \o <<"\n">>
  \o <<"-", " ", "*", "*", "S", "y", "n", "t", "h", "e", "s", "i", "z", "e", "d", " ", "A", "t", "*", "*", ":", " ">> \o result.metadata.synthesizedAt \o <<"\n">>
  \o <<"-", " ", "*", "*", "A", "r", "t", "i", "f", "a", "c", "t", "s", " ", "F", "o", "u", "n", "d", "*", "*", ":", " ">> \o NumToStr(Len(result.artifacts)) \o <<"\n">>

\* KnowledgeSynthesizer.run() on the directory (exists, fs) listed in the
\* order listing at time t: the synthesizer's record and the directory
\* after the call
SynthesizerRun(exists, fs, listing, t) ==
  LET Returned(outputs, result) ==
        IF Len(outputs) = 0
        THEN [synth |-> [pc |-> "returned", outputs |-> outputs,
                         result |-> <<>>, path |-> <<>>, thrown |-> <<>>],
              files |-> fs]
        ELSE IF result.thrown # <<>>
        THEN [synth |-> [pc |-> "thrown", outputs |-> outputs,
                         result |-> <<>>, path |-> <<>>,
                         thrown |-> result.thrown],
              files |-> fs]
        ELSE [synth |-> [pc |-> "returned", outputs |-> outputs,
                         result |-> <<result>>, path |-> FinalOutputName,
                         thrown |-> <<>>],
              files |-> WriteFile(fs, FinalOutputName,
                                  FinalOutputContent(result))]
      Collected(collected) ==
        IF collected.thrown # <<>>
        THEN [synth |-> [pc |-> "thrown", outputs |-> <<>>, result |-> <<>>,
                         path |-> <<>>, thrown |-> collected.thrown],
              files |-> fs]
        ELSE Returned(collected.outputs, Synthesize(collected.outputs, t))
  IN Collected(CollectOutputsIn(exists, fs, listing))

(***************************************************************************)
(* The synthesizer on its own (its command line usage): a working          *)
(* directory is drawn, outputs are collected, run() is called              *)
(***************************************************************************)
\* texts found in output files: plans with and without a recommendations
\* section, and the executor's failure document
SynthDocs ==
  {<<"#", " ", "P", "l", "a", "n", "\n", "\n", "#", "#", " ", "R", "e", "c", "o", "m", "m", "e", "n", "d", "a", "t", "i", "o", "n", "s", "\n", "-", " ", "d", "o", " ", "X", "\n", "-", " ", "d", "o", " ", "Y", "\n">>,
   <<"#", "#", " ", "n", "e", "x", "t", " ", "s", "t", "e", "p", "s", "\n", " ", " ", "*", " ", "a", "\n", "t", "e", "x", "t", "\n", "\n", "#", "#", " ", "O", "t", "h", "e", "r", "\n", "-", " ", "b", "\n">>,
   <<"#", " ", "N", "o", "t", "e", "s", "\n", "\n", "#", "#", " ", "R", "e", "c", "o", "m", "m", "e", "n", "d", "a", "t", "i", "o", "n", "s", "\n", "#", "#", " ", "A", "p", "p", "e", "n", "d", "i", "x", "\n", "-", " ", "r", "a", "w", " ", "d", "a", "t", "a", "\n">>,
   ErrorOutput(openai, <<"f", "e", "t", "c", "h", " ", "f", "a", "i", "l", "e", "d">>)}

\* names of output files earlier executions left behind
SynthFileNames ==
  {OutputFileName(ExecutionId(claude, MaxTime)),
   OutputFileName(ExecutionId(openai, StartTime)),
   OutputFileName(ExecutionId(my_llm, StartTime))}

SynthDirs ==
  UNION {[names -> SynthDocs] :
           names \in {n \in SUBSET SynthFileNames : Cardinality(n) <= MaxSynthFiles}}

InitSynth ==
  /\ now = StartTime
  /\ env = {}
  /\ rooms = {}
  /\ calls = <<>>
  /\ executions = <<>>
  /\ events = <<>>
  /\ pars = <<>>
  /\ config = NoConfig
  /\ router = "absent"
  /\ enabledProviders = <<>>
  /\ analysis = NoAnalysis
  /\ cli = NoCli
  /\ synth = NoSynth
  /\ request = NoRequest
  /\ workDir \in BOOLEAN
  /\ files \in IF workDir THEN SynthDirs ELSE {<<>>}

\* a call of collectOutputs()
SynthCollectOutputs(listing) ==
  /\ listing \in Listings(workDir, files)
  /\ LET collected == CollectOutputsIn(workDir, files, listing)
     IN synth' = [pc |-> IF collected.thrown # <<>> THEN "thrown" ELSE "collected",
                  outputs |-> collected.outputs, result |-> <<>>,
                  path |-> <<>>, thrown |-> collected.thrown]
  /\ UNCHANGED <<now, env, rooms, calls, executions, files, events, pars,
                 routerVars, workDir, cli>>
  /\ UNCHANGED request

\* a call of run()
SynthRun(listing) ==
  /\ listing \in Listings(workDir, files)
  /\ LET Returns(r) == synth' = r.synth /\ files' = r.files
     IN Returns(SynthesizerRun(workDir, files, listing, now))
  /\ UNCHANGED <<now, env, rooms, calls, executions, events, pars,
                 routerVars, workDir, cli>>
  /\ UNCHANGED request

NextSynth ==
  \/ Tick
  \/ \E listing \in Listings(workDir, files) : SynthCollectOutputs(listing)
  \/ \E listing \in Listings(workDir, files) : SynthRun(listing)

SpecSynth == InitSynth /\ [][NextSynth]_vars

(***************************************************************************)
(* The command line: new MultiAgentCLI() and run(parseArgs()).  A          *)
(* configuration, an environment, a working directory and the arguments    *)
(* are drawn; run is split at its awaits                                   *)
(***************************************************************************)
RECURSIVE ParseArgsFrom(_, _, _)
\* the loop of parseArgs from args[i] on (i counts from 1); a value option
\* at the end of the arguments reads undefined
ParseArgsFrom(args, i, options) ==
  IF i > Len(args) THEN options
  ELSE LET arg == args[i]
           value == IF i + 1 <= Len(args) THEN <<args[i + 1]>> ELSE <<>>
       IN IF arg \in {<<"-", "-", "t", "a", "s", "k">>, <<"-", "t">>}
          THEN ParseArgsFrom(args, i + 2, [options EXCEPT !.task = value])
          ELSE IF arg \in {<<"-", "-", "p", "r", "o", "v", "i", "d", "e", "r">>, <<"-", "p">>}
          THEN ParseArgsFrom(args, i + 2, [options EXCEPT !.provider = value])
          ELSE IF arg = <<"-", "-", "p", "a", "r", "a", "l", "l", "e", "l">>
          THEN ParseArgsFrom(args, i + 1, [options EXCEPT !.parallel = <<TRUE>>])
          ELSE IF arg = <<"-", "-", "n", "o", "-", "p", "a", "r", "a", "l", "l", "e", "l">>
          THEN ParseArgsFrom(args, i + 1, [options EXCEPT !.parallel = <<FALSE>>])
          ELSE IF arg \in {<<"-", "-", "v", "e", "r", "b", "o", "s", "e">>, <<"-", "v">>}
          THEN ParseArgsFrom(args, i + 1, [options EXCEPT !.verbose = TRUE])
          ELSE IF arg = <<"-", "-", "d", "r", "y", "-", "r", "u", "n">>
          THEN ParseArgsFrom(args, i + 1, [options EXCEPT !.dryRun = TRUE])
          ELSE IF arg = <<"-", "-", "c", "l", "e", "a", "n", "u", "p">>
          THEN ParseArgsFrom(args, i + 1, [options EXCEPT !.cleanup = TRUE])
          ELSE ParseArgsFrom(args, i + 1, options)

\* parseArgs() on process.argv.slice(2) = argv
ParseArgs(argv) == ParseArgsFrom(argv, 1, NoOptions)

\* a run that goes parallel whenever the analysis allows it
UseParallel_IgnoresOption(an, options) == an.parallelizable

\* the test that sends run to executeParallel, else to executeSequential
UseParallel(an, options) ==
  an.parallelizable /\ options.parallel # <<FALSE>>

\* the tasks executeParallel of the command line builds: one per route, all
\* with the task text of the command line
CLITasks ==
  [i \in 1..Len(analysis.routes) |->
     [provider |-> analysis.routes[i].provider, task |-> cli.options.task[1]]]

NoProvidersError ==
  <<"N", "o", " ", "p", "r", "o", "v", "i", "d", "e", "r", "s", " ", "a", "v", "a", "i", "l", "a", "b", "l", "e", ".", " ", "S", "e", "t", " ", "a", "t", " ", "l", "e", "a", "s", "t", " ", "A", "N", "T", "H", "R", "O", "P", "I", "C", "_", "A", "P", "I", "_", "K", "E", "Y", ".">>

\* the routing configurations of the command line's runs: both providers
\* configured and enabled, a rule per keyword with the other provider as
\* fallback, every parallel policy
CLIConfigs ==
  {[providers |->
      <<[name |-> claude, api_key_env |-> ANTHROPIC_API_KEY, enabled |-> TRUE],
        [name |-> openai, api_key_env |-> OPENAI_API_KEY, enabled |-> TRUE]>>,
    keyword_to_provider |->
      <<[keyword |-> <<"t", "e", "s", "t">>, primary |-> claude, fallback |-> <<openai>>,
         confidence |-> 90],
        [keyword |-> <<"b", "u", "i", "l", "d">>, primary |-> openai, fallback |-> <<claude>>,
         confidence |-> 60]>>,
    task_type_mapping |->
      (testing :> [preferred |-> claude, secondary |-> <<openai>>]) @@
      (code_generation :> [preferred |-> openai, secondary |-> <<claude>>]) @@
      (reasoning :> [preferred |-> claude, secondary |-> <<>>]),
    parallel_execution |-> pol] : pol \in ParallelPolicies}

\* task texts of the command line: two keywords, one keyword, none
CLITaskTexts == {<<"B", "u", "i", "l", "d", " ", "t", "e", "s", "t", "s">>, <<"p", "l", "e", "a", "s", "e", " ", " ", "r", "e", "b", "u", "i", "l", "d">>, <<"h", "e", "l", "l", "o">>}

\* the arguments of the command line's runs
CLIArgvs ==
  {<<>>, <<<<"-", "-", "c", "l", "e", "a", "n", "u", "p">>>>, <<<<"-", "-", "d", "r", "y", "-", "r", "u", "n">>, <<"-", "-", "c", "l", "e", "a", "n", "u", "p">>>>}
  \cup {<<<<"-", "-", "t", "a", "s", "k">>, t>> \o rest :
          t \in CLITaskTexts,
          rest \in {<<>>, <<<<"-", "-", "d", "r", "y", "-", "r", "u", "n">>>>, <<<<"-", "-", "p", "a", "r", "a", "l", "l", "e", "l">>>>,
                    <<<<"-", "-", "n", "o", "-", "p", "a", "r", "a", "l", "l", "e", "l">>>>, <<<<"-", "-", "p", "r", "o", "v", "i", "d", "e", "r">>, openai>>}}

\* what an earlier run left in the working directory: nothing, the files
\* of one execution, or these and the report written from them
CLIDirs ==
  LET old == (OutputFileName(ExecutionId(claude, StartTime - 1)) :> <<"#", " ", "O", "l", "d", "\n">>) @@
             (FlagFileName(ExecutionId(claude, StartTime - 1))
                :> ToISOString(StartTime - 1))
  IN {<<>>, old, WriteFile(old, FinalOutputName, <<"#", " ", "S", "y", "n", "t", "h", "e", "s", "i", "z", "e", "d", " ", "R", "e", "s", "u", "l", "t", "s", "\n">>)}

InitCLI ==
  /\ now = StartTime
  /\ env \in RouterEnvs
  /\ rooms = {}
  /\ calls = <<>>
  /\ executions = <<>>
  /\ events = <<>>
  /\ pars = <<>>
  /\ config \in CLIConfigs
  /\ router = "new"
  /\ enabledProviders = <<>>
  /\ analysis = NoAnalysis
  /\ workDir \in BOOLEAN
  /\ files \in IF workDir THEN CLIDirs ELSE {<<>>}
  /\ cli \in {[NoCli EXCEPT !.pc = "start", !.argv = a] : a \in CLIArgvs}
  /\ synth = NoSynth
  /\ request = NoRequest

\* new MultiAgentCLI(): the router (which throws without a provider), the
\* executor (which creates the working directory), the synthesizer, then a
\* room per enabled provider
CLIConstruct ==
  /\ cli.pc = "start"
  /\ enabledProviders' = ValidateProviders(config, env)
  /\ IF Len(enabledProviders') = 0
     THEN /\ router' = "failed"
          /\ cli' = [cli EXCEPT !.pc = "done", !.error = <<NoProvidersError>>]
          /\ UNCHANGED <<workDir, rooms>>
     ELSE /\ router' = "ready"
          /\ workDir' = TRUE
          /\ rooms' = {enabledProviders'[i] : i \in 1..Len(enabledProviders')}
          /\ cli' = [cli EXCEPT !.pc = "constructed"]
  /\ UNCHANGED <<now, env, calls, executions, files, events, pars, config,
                 analysis, synth>>
  /\ UNCHANGED request

\* run(parseArgs()) up to the choice between executeParallel and
\* executeSequential: cleanup, usage, or analysis and report, and the return
\* of a dry run
CLIRun ==
  /\ cli.pc = "constructed"
  /\ LET options == ParseArgs(cli.argv)
         an == TaskAnalysis(options.task[1])
     IN IF options.cleanup
        THEN /\ files' = IF CleanupThrows THEN files ELSE CleanupFiles(files)
             /\ cli' = [cli EXCEPT !.pc = "done", !.options = options]
             /\ UNCHANGED analysis
        ELSE IF options.task = <<>> \/ options.task = <<<<>>>>
        THEN /\ cli' = [cli EXCEPT !.pc = "done", !.options = options]
             /\ UNCHANGED <<files, analysis>>
        ELSE /\ analysis' = an
             /\ cli' = [cli EXCEPT
                  !.options = options,
                  !.reported = an.routes,
                  !.pc = IF options.dryRun THEN "done" ELSE "executing",
                  !.mode = IF options.dryRun THEN "none"
                           ELSE IF UseParallel(an, options) THEN "parallel"
                           ELSE "sequential"]
             /\ UNCHANGED files
  /\ UNCHANGED <<now, env, rooms, calls, executions, events, pars, config,
                 router, enabledProviders, workDir, synth>>
  /\ UNCHANGED request

\* executeParallel of the command line: executor.executeParallel(tasks)
CLIExecuteParallel(ts) ==
  /\ cli.pc = "executing"
  /\ cli.mode = "parallel"
  /\ Len(pars) = 0
  /\ ExecuteParallel(CLITasks, ts)

\* executeSequential: the loop's next executeInRoom, called once the one
\* before it has returned
CLIExecuteSequential ==
  /\ cli.pc = "executing"
  /\ cli.mode = "sequential"
  /\ Len(calls) < Len(analysis.routes)
  /\ Len(calls) > 0 => calls[Len(calls)].pc = "returned"
  /\ ExecuteInRoom(analysis.routes[Len(calls) + 1].provider, cli.options.task[1])

\* the rest of run once the executions are over: synthesizer.run() and the
\* end of the process; a rejected execution skips the synthesis and is
\* reported by the catch at the call of run
CLIFinish(listing) ==
  /\ cli.pc = "executing"
  /\ listing \in Listings(workDir, files)
  /\ LET rejected ==
           \/ cli.mode = "parallel" /\ Len(pars) = 1 /\ pars[1].pc = "rejected"
           \/ cli.mode = "sequential" /\ Len(calls) > 0
                /\ calls[Len(calls)].pc = "thrown"
         finished ==
           \/ cli.mode = "parallel" /\ Len(pars) = 1 /\ pars[1].pc = "resolved"
           \/ cli.mode = "sequential" /\ Len(calls) = Len(analysis.routes)
                /\ (Len(calls) > 0 => calls[Len(calls)].pc = "returned")
         Returns(r) ==
           /\ synth' = r.synth
           /\ files' = r.files
           /\ cli' = [cli EXCEPT !.pc = "done",
                        !.outputPath = r.synth.path,
                        !.error = r.synth.thrown]
     IN /\ rejected \/ finished
        /\ IF rejected
           THEN /\ cli' = [cli EXCEPT !.pc = "done",
                             !.error = <<IF cli.mode = "parallel"
                                         THEN pars[1].reason
                                         ELSE calls[Len(calls)].thrown>>]
                /\ UNCHANGED <<files, synth>>
           ELSE Returns(SynthesizerRun(workDir, files, listing, now))
  /\ UNCHANGED <<now, env, rooms, calls, executions, events, pars, routerVars,
                 workDir>>
  /\ UNCHANGED request

NextCLI ==
  \/ Tick
  \/ CLIConstruct
  \/ CLIRun
  \/ \E ts \in [1..Len(analysis.routes) -> now..MaxTime] : CLIExecuteParallel(ts)
  \/ CLIExecuteSequential
  \/ \E k \in 1..Len(calls), d \in Docs : ProviderResolves(k, d)
  \/ \E k \in 1..Len(calls) :
        \E m \in RejectMessages(calls[k].provider, env) : ProviderRejects(k, m)
  \/ \E q \in 1..Len(pars) : ParallelResolves(q)
  \/ \E listing \in Listings(workDir, files) : CLIFinish(listing)

SpecCLI == InitCLI /\ [][NextCLI]_vars

(***************************************************************************)
(* inferTaskType on its own: a keyword list is drawn, the type is inferred *)
(***************************************************************************)
\* keywords a rule table may configure: some of every category, and one of
\* no category
InferKeywords ==
  {<<"t", "e", "s", "t">>, <<"v", "e", "r", "i", "f", "y">>, <<"b", "u", "i", "l", "d">>, <<"i", "m", "a", "g", "e">>, <<"n", "e", "w", "s">>, <<"p", "l", "a", "n">>, <<"w", "r", "i", "t", "e">>}

InitInfer ==
  /\ now = StartTime
  /\ env = {}
  /\ rooms = {}
  /\ calls = <<>>
  /\ executions = <<>>
  /\ files = <<>>
  /\ events = <<>>
  /\ pars = <<>>
  /\ config = NoConfig
  /\ router = "ready"
  /\ enabledProviders = <<claude>>
  /\ analysis \in {[NoAnalysis EXCEPT !.keywords = ks] :
                     ks \in UNION {[1..n -> InferKeywords] : n \in 0..MaxKeywords}}
  /\ workDir = TRUE
  /\ cli = NoCli
  /\ synth = NoSynth
  /\ request = NoRequest

\* const taskType = this.inferTaskType(keywords)
InferStep ==
  /\ analysis.taskType = <<>>
  /\ analysis' = [analysis EXCEPT !.taskType = InferTaskType(analysis.keywords)]
  /\ UNCHANGED <<env, config, router, enabledProviders, execVars, cliVars>>

SpecInfer == InitInfer /\ [][InferStep]_vars

(***************************************************************************)
(* The provider adapter on its own: execute(prompt, options) is called on  *)
(* a constructed adapter                                                   *)
(***************************************************************************)
\* the options a caller may pass: each one absent or supplied, 0 included
AdapterOptions ==
  [maxTokens : {<<>>, <<0>>, <<1>>, <<256>>, <<DefaultMaxTokens>>, <<8192>>},
   temperature : {<<>>, <<0>>, <<20>>, <<DefaultTemperature>>, <<100>>, <<200>>}]

InitAdapter ==
  /\ now = StartTime
  /\ env = {ANTHROPIC_API_KEY, OPENAI_API_KEY, GOOGLE_API_KEY, XAI_API_KEY}
  /\ rooms = {}
  /\ calls = <<>>
  /\ executions = <<>>
  /\ files = <<>>
  /\ events = <<>>
  /\ pars = <<>>
  /\ config = NoConfig
  /\ router = "absent"
  /\ enabledProviders = <<>>
  /\ analysis = NoAnalysis
  /\ workDir = TRUE
  /\ cli = NoCli
  /\ synth = NoSynth
  /\ request \in {[NoRequest EXCEPT !.provider = <<p>>, !.options = o] :
                    p \in DOMAIN PROVIDER_CONFIG, o \in AdapterOptions}

\* new ProviderAdapter(provider).execute(prompt, options) up to its fetch
AdapterExecute ==
  /\ request.body = <<>>
  /\ AdapterConstructorError(request.provider[1], env) = <<>>
  /\ request' = [request EXCEPT
                   !.body = <<RequestBody(request.provider[1], request.options)>>]
  /\ UNCHANGED <<now, env, rooms, calls, executions, files, events, pars,
                 routerVars, workDir, cli, synth>>

SpecAdapter == InitAdapter /\ [][AdapterExecute]_vars

(***************************************************************************)
(* Properties of the room executor                                         *)
(***************************************************************************)

\* C1: an executeParallel call one of whose tasks names a provider without a
\* registered room never rejects; when it has resolved it holds one result per
\* task, and the result of each task without a room is marked failed.
C1_ParallelContainsMissingRoom ==
  \A q \in 1..Len(pars) :
    /\ pars[q].pc # "rejected"
    /\ pars[q].pc = "resolved" =>
         /\ Len(pars[q].results) = Len(pars[q].tasks)
         /\ \A i \in 1..Len(pars[q].tasks) :
              calls[pars[q].promises[i]].status = "none"
                => ~pars[q].results[i].success

\* C2: once the provider call of an execution with a registered room has
\* failed, executeInRoom has returned (not thrown) a result with success =
\* false whose output is the failure document, and the execution's record has
\* status failed and carries the error message.
C2_FailureContained ==
  \A k \in 1..Len(calls) :
    calls[k].reply.state = "rejected" =>
      /\ calls[k].pc = "returned"
      /\ calls[k].ret.success = FALSE
      /\ calls[k].ret.roomId = calls[k].id
      /\ calls[k].ret.output = ErrorOutput(calls[k].provider, calls[k].reply.value)
      /\ calls[k].status = "failed"
      /\ calls[k].error = calls[k].reply.value

\* C2 witness: both kinds of failure have been contained: a rejected
\* adapter.execute (HTTP status or transport error) and a throwing constructor
C2_Witness ==
  /\ \E k \in 1..Len(calls) :
       /\ calls[k].provider = claude
       /\ calls[k].reply.state = "rejected"
       /\ calls[k].reply.value \in ExecuteErrors(claude)
       /\ calls[k].pc = "returned"
  /\ \E k \in 1..Len(calls) :
       /\ calls[k].provider = my_llm
       /\ calls[k].reply.state = "rejected"
       /\ calls[k].pc = "returned"

\* C3: the record stored under an execution id never leaves a terminal status
\* (no terminal -> running, no completed -> failed or failed -> completed).
C3_TerminalIsFinal ==
  [][\A id \in DOMAIN executions :
       RecordStatus(executions, calls, id) \in Terminal =>
         RecordStatus(executions', calls', id) = RecordStatus(executions, calls, id)]_vars

\* C4: two executions that are running at the same time have different
\* execution ids.
C4_ConcurrentIdsDiffer ==
  \A j, k \in 1..Len(calls) :
    (j # k /\ calls[j].pc = "awaiting" /\ calls[k].pc = "awaiting")
      => calls[j].id # calls[k].id

\* C5: when executeParallel has resolved, result i is the result the call
\* made for task i returned, for every i.
C5_ResultsInTaskOrder ==
  \A q \in 1..Len(pars) :
    pars[q].pc = "resolved" =>
      /\ Len(pars[q].results) = Len(pars[q].tasks)
      /\ \A i \in 1..Len(pars[q].tasks) :
           /\ pars[q].results[i] = calls[pars[q].promises[i]].ret
           /\ pars[q].results[i].provider = pars[q].tasks[i].provider

\* C5 witness: a resolved executeParallel whose second task settled strictly
\* before its first, with different results
C5_Witness ==
  \E q \in 1..Len(pars) :
    /\ pars[q].pc = "resolved"
    /\ Len(pars[q].tasks) >= 2
    /\ calls[pars[q].promises[2]].endTime < calls[pars[q].promises[1]].endTime
    /\ pars[q].results[1] # pars[q].results[2]

\* C10: the output file a returned execution of provider p with timestamp t
\* wrote is reported by collectOutputs as exactly one RoomOutput, with
\* provider p, timestamp t and the file's content.
C10_OutputRoundTrip ==
  \A k \in 1..Len(calls) :
    (calls[k].pc = "returned" /\ OutputFileName(calls[k].id) \in DOMAIN files) =>
      \A listing \in ReadDirOutputs(files) :
        LET outs == CollectOutputs(files, listing)
            mine == {i \in 1..Len(outs) :
                       outs[i].executionId = <<"a", "g", "e", "n", "t", "-">> \o calls[k].id}
        IN /\ Cardinality(mine) = 1
           /\ \A i \in mine :
                /\ outs[i].provider = <<calls[k].provider>>
                /\ outs[i].timestamp = Num(calls[k].startTime)
                /\ outs[i].content = files[OutputFileName(calls[k].id)]

(***************************************************************************)
(* Properties of the router (checked under SpecRouter)                     *)
(***************************************************************************)
Analyzed == analysis.task # <<>>

\* the extracted keywords whose rule's primary provider is enabled
RoutableKeywords ==
  {i \in 1..Len(analysis.keywords) :
     IsProviderAvailable(<<RuleOf(analysis.keywords[i]).primary>>)}

\* the inferred task type has a mapping whose preferred provider is enabled
TypeRoutable ==
  /\ analysis.taskType \in DOMAIN config.task_type_mapping
  /\ IsProviderAvailable(<<config.task_type_mapping[analysis.taskType].preferred>>)

\* C6: the route list of an analysis never holds two routes with the same
\* provider name.
C6_RoutesDistinctProviders ==
  Analyzed =>
    \A i, j \in 1..Len(analysis.routes) :
      i # j => analysis.routes[i].provider # analysis.routes[j].provider

\* C6 witness: two extracted keywords are both mapped to one enabled provider
\* and the analysis holds a single route
C6_Witness ==
  /\ Analyzed
  /\ Len(analysis.keywords) = 2
  /\ RoutableKeywords = {1, 2}
  /\ RuleOf(analysis.keywords[1]).primary = RuleOf(analysis.keywords[2]).primary
  /\ Len(analysis.routes) = 1

\* C7: if claude is enabled, the route list of an analysis is not empty.
C7_ClaudeEnabledRoutesNonEmpty ==
  (Analyzed /\ IsProviderAvailable(<<claude>>)) => analysis.routes # <<>>

\* C7 witness: claude is enabled, a keyword was extracted, and neither a
\* keyword nor a task-type mapping (there is none) produced the route
C7_Witness ==
  /\ Analyzed
  /\ IsProviderAvailable(<<claude>>)
  /\ analysis.keywords # <<>>
  /\ RoutableKeywords = {}
  /\ analysis.taskType \notin DOMAIN config.task_type_mapping
  /\ Len(analysis.routes) = 1

\* C8: with no keyword route, no enabled preferred provider for the inferred
\* task type, and claude enabled, the analysis holds exactly one route:
\* claude, confidence 0.5, reason 'Default fallback', no fallback.
C8_DefaultFallbackRoute ==
  (Analyzed /\ RoutableKeywords = {} /\ ~TypeRoutable
     /\ IsProviderAvailable(<<claude>>)) =>
    analysis.routes = <<[provider |-> claude, confidence |-> 50,
                         reason |-> <<"D", "e", "f", "a", "u", "l", "t", " ", "f", "a", "l", "l", "b", "a", "c", "k">>, fallback |-> <<>>]>>

\* C8 witness: the default route was taken although openai is enabled too and
\* the task type has a mapping (whose preferred provider is not enabled)
C8_Witness ==
  /\ Analyzed
  /\ RoutableKeywords = {}
  /\ ~TypeRoutable
  /\ analysis.taskType \in DOMAIN config.task_type_mapping
  /\ IsProviderAvailable(<<claude>>)
  /\ IsProviderAvailable(<<openai>>)
  /\ Len(analysis.routes) = 1

\* C9: whenever canRunParallel() is false, the analysis is not
\* parallelizable.
C9_NotParallelizableWithoutCapacity ==
  (Analyzed /\ ~CanRunParallel) => ~analysis.parallelizable

\* C9 witness: an analysis with two routes under a disabled parallel policy
C9_Witness ==
  /\ Analyzed
  /\ ~CanRunParallel
  /\ Len(analysis.routes) > 1
  /\ ~analysis.parallelizable

\* C12: after any cleanup() the working directory holds no output file and no
\* marker file, the call did not fail, and a second cleanup() right after it
\* would not fail and would leave the directory exactly as it is.
C12_CleanupIdempotent ==
  [][Cleanup =>
       /\ ~CleanupThrows
       /\ \A f \in DOMAIN files' :
            ~EndsWith(f, <<"-", "o", "u", "t", "p", "u", "t", ".", "m", "d">>) /\ ~EndsWith(f, <<"-", "c", "o", "m", "p", "l", "e", "t", "e", ".", "f", "l", "a", "g">>)
       /\ CleanupFiles(files') = files'
       /\ ~CleanupThrows']_vars

\* C12 witness: the directory is empty again after executions of both kinds
\* (a completed one and a failed one) had written their files
C12_Witness ==
  /\ DOMAIN files = {}
  /\ \E k \in 1..Len(calls) : calls[k].status = "completed"
  /\ \E k \in 1..Len(calls) : calls[k].status = "failed"

(***************************************************************************)
(* Properties of construction                                              *)
(***************************************************************************)
\* the configured providers that are enabled and whose credential variable
\* is set
Eligible ==
  {i \in 1..Len(config.providers) :
     config.providers[i].enabled /\ config.providers[i].api_key_env \in env}

\* C14: the router's construction fails exactly when no configured provider is
\* both enabled and has its credential variable set; when it succeeds the
\* enabled-provider list holds exactly those providers, each once.
C14_RouterConstruction ==
  router \in {"ready", "failed"} =>
    /\ router = "failed" <=> Eligible = {}
    /\ router = "ready" =>
         /\ {enabledProviders[i] : i \in 1..Len(enabledProviders)}
              = {config.providers[i].name : i \in Eligible}
         /\ Len(enabledProviders) = Cardinality(Eligible)

\* C14 witness: a constructed router that left out a provider which is
\* enabled in the configuration but has no credential
C14_Witness ==
  /\ router = "ready"
  /\ \E i \in 1..Len(config.providers) :
       /\ config.providers[i].enabled
       /\ config.providers[i].api_key_env \notin env
       /\ ~SeqContains(enabledProviders, config.providers[i].name)

\* C15: an execution whose provider is not in the static table, or whose
\* credential variable is not set, ends with the constructor's error; only an
\* execution with a known provider and a credential gets as far as a provider
\* request (a completion, an HTTP error or a transport error).
C15_AdapterNeedsCredential ==
  \A k \in 1..Len(calls) :
    LET c == calls[k]
        known == c.provider \in DOMAIN PROVIDER_CONFIG
    IN /\ (c.reply.state # "pending" /\ ~known) =>
            /\ c.reply.state = "rejected"
            /\ c.error = <<"U", "n", "k", "n", "o", "w", "n", " ", "p", "r", "o", "v", "i", "d", "e", "r", ":", " ">> \o c.provider
       /\ (c.reply.state # "pending" /\ known
             /\ PROVIDER_CONFIG[c.provider].envVar \notin env) =>
            /\ c.reply.state = "rejected"
            /\ c.error = <<"A", "P", "I", " ", "k", "e", "y", " ", "n", "o", "t", " ", "f", "o", "u", "n", "d", ":", " ">> \o PROVIDER_CONFIG[c.provider].envVar
       /\ (c.reply.state = "resolved"
             \/ (c.reply.state = "rejected" /\ known
                   /\ c.reply.value \in ExecuteErrors(c.provider))) =>
            /\ known
            /\ PROVIDER_CONFIG[c.provider].envVar \in env

\* C15 witness: with no credential set, an execution of a known provider and
\* one of an unknown provider have both ended with the constructor's error
C15_Witness ==
  /\ \E k \in 1..Len(calls) :
       /\ calls[k].provider = claude
       /\ calls[k].error = <<"A", "P", "I", " ", "k", "e", "y", " ", "n", "o", "t", " ", "f", "o", "u", "n", "d", ":", " ", "A", "N", "T", "H", "R", "O", "P", "I", "C", "_", "A", "P", "I", "_", "K", "E", "Y">>
  /\ \E k \in 1..Len(calls) :
       /\ calls[k].provider = my_llm
       /\ calls[k].error = <<"U", "n", "k", "n", "o", "w", "n", " ", "p", "r", "o", "v", "i", "d", "e", "r", ":", " ", "m", "y", "-", "l", "l", "m">>

(***************************************************************************)
(* Properties of the synthesizer (checked under SpecSynth)                 *)
(***************************************************************************)
RECURSIVE StripHashes(_)
StripHashes(s) ==
  IF s # <<>> /\ Head(s) = "#" THEN StripHashes(Tail(s)) ELSE s

\* a line that is a recommendations heading: "##", further "#" allowed, then
\* one of the heading words in any letter case, white space around it
IsRecommendationsHeading(line) ==
  /\ StartsWith(Trim(line), <<"#", "#">>)
  /\ ToLowerCase(Trim(StripHashes(Trim(line)))) \in RecommendationHeadings

\* the recommendations an output contributes, read line by line: the bullet
\* lines between the first recommendations heading and the next line that
\* starts with "##" (or the end), marker stripped, provider prefixed
SectionBullets(output) ==
  LET lines == Split(output.content, "\n")
      heads == {h \in 1..Len(lines) : IsRecommendationsHeading(lines[h])}
  IN IF heads = {} THEN <<>>
     ELSE LET h == CHOOSE x \in heads : \A y \in heads : x <= y
              ends == {l \in (h + 1)..Len(lines) : StartsWith(lines[l], <<"#", "#">>)}
              stop == IF ends = {} THEN Len(lines) + 1
                      ELSE CHOOSE x \in ends : \A y \in ends : x <= y
              kept == SelectIdx(lines,
                        {l \in (h + 1)..(stop - 1) :
                           Trim(lines[l]) # <<>> /\ Head(Trim(lines[l])) \in {"-", "*"}},
                        1)
          IN [i \in 1..Len(kept) |->
                <<"[">> \o Str(output.provider) \o <<"]", " ">> \o Trim(Tail(Trim(kept[i])))]

\* C13: the recommendations of a synthesis are, output by output in outputs
\* order and line by line in document order, the bullet lines of each
\* output's recommendations section, marker stripped and prefixed with
\* [provider]; an output without such a section contributes nothing.
C13_RecommendationsAggregated ==
  synth.result # <<>> =>
    synth.result[1].recommendations
      = Concat([i \in 1..Len(synth.outputs) |-> SectionBullets(synth.outputs[i])])

\* C16: a collectOutputs() (alone or as the first step of run()) on a working
\* directory that does not exist has returned the empty list and has not
\* thrown.
C16_MissingDirectoryCollectsNothing ==
  (~workDir /\ synth.pc # "idle") =>
    /\ synth.pc # "thrown"
    /\ synth.thrown = <<>>
    /\ synth.outputs = <<>>

\* C16 witness: collectOutputs() has returned although there is no working
\* directory
C16_Witness ==
  /\ ~workDir
  /\ synth.pc = "collected"

(***************************************************************************)
(* Properties of the command line                                          *)
(***************************************************************************)
\* the command line asks for a dry run of a task
DryRunMode ==
  /\ ParseArgs(cli.argv).dryRun
  /\ ParseArgs(cli.argv).task # <<>>
  /\ ~ParseArgs(cli.argv).cleanup

\* C11: in a dry run no step of the process, from its start to its exit,
\* starts an execution or creates, modifies or deletes anything in working
\* storage (the directory and its files), and a dry run that ends without an
\* error has reported the routing decisions of the analysis.
C11_DryRunTouchesNothing ==
  [][DryRunMode =>
       /\ calls' = calls /\ pars' = pars /\ executions' = executions
       /\ files' = files
       /\ workDir' = workDir
       /\ (cli'.pc = "done" /\ cli'.error = <<>>) =>
            (cli'.reported = analysis'.routes /\ cli'.mode = "none")]_vars

\* C17: with --provider p every execution the command line starts is on
\* provider p.
C17_ProviderOptionForcesProvider ==
  ParseArgs(cli.argv).provider # <<>> =>
    \A k \in 1..Len(calls) :
      calls[k].provider = ParseArgs(cli.argv).provider[1]

\* C18: with --parallel a run that has two or more routed tasks executes
\* them through executeParallel: one parallel execution that launches an
\* execution per route.
C18_ParallelOptionForcesParallel ==
  (/\ ParseArgs(cli.argv).parallel = <<TRUE>>
   /\ cli.mode # "none"
   /\ Len(analysis.routes) > 1) =>
    /\ cli.mode = "parallel"
    /\ calls # <<>> => (Len(pars) = 1 /\ Len(calls) = Len(analysis.routes))

\* C19: with --no-parallel the routed tasks run one after the other in route
\* order: execution k is on the provider of route k, at most one execution
\* has status running, and when execution k+1 exists execution k has reached
\* a terminal status no later than execution k+1 started.
C19_NoParallelIsSequential ==
  ParseArgs(cli.argv).parallel = <<FALSE>> =>
    /\ pars = <<>>
    /\ Len(calls) <= Len(analysis.routes)
    /\ \A k \in 1..Len(calls) : calls[k].provider = analysis.routes[k].provider
    /\ Cardinality({k \in 1..Len(calls) : calls[k].status = "running"}) <= 1
    /\ \A k \in 1..(Len(calls) - 1) :
          /\ calls[k].status \in Terminal
          /\ calls[k].endTime <= calls[k + 1].startTime

\* C19 witness: --no-parallel on a task whose analysis is parallelizable;
\* both routed executions have run, the second one after the first had ended
C19_Witness ==
  /\ ParseArgs(cli.argv).parallel = <<FALSE>>
  /\ analysis.parallelizable
  /\ Len(calls) = 2
  /\ \A k \in 1..2 : calls[k].status \in Terminal
  /\ cli.pc = "done"

\* C20: when the run is over, for every routed execution that failed and
\* whose route names a fallback, the task has also been executed on that
\* fallback: the executions on the fallback provider outnumber the routes
\* that have it as their primary provider.
C20_FallbackExecutedOnFailure ==
  cli.pc = "done" =>
    \A k \in 1..Len(calls) :
      (/\ k <= Len(analysis.routes)
       /\ calls[k].status = "failed"
       /\ analysis.routes[k].fallback # <<>>) =>
        Cardinality({j \in 1..Len(calls) :
                       /\ calls[j].provider = analysis.routes[k].fallback[1]
                       /\ calls[j].task = calls[k].task})
          > Cardinality({i \in 1..Len(analysis.routes) :
                           analysis.routes[i].provider
                             = analysis.routes[k].fallback[1]})

(***************************************************************************)
(* Further properties of the router (checked under SpecRouter)             *)
(***************************************************************************)
\* C21: for every extracted keyword whose rule's primary provider is not
\* enabled while the rule's fallback provider is, the route list of the
\* analysis holds a route to that fallback provider.
C21_FallbackRoutedWhenPrimaryUnavailable ==
  Analyzed =>
    \A i \in 1..Len(analysis.keywords) :
      (/\ ~IsProviderAvailable(<<RuleOf(analysis.keywords[i]).primary>>)
       /\ IsProviderAvailable(RuleOf(analysis.keywords[i]).fallback)) =>
        \E r \in 1..Len(analysis.routes) :
          analysis.routes[r].provider = RuleOf(analysis.keywords[i]).fallback[1]

\* the routable keywords that are the first, in extraction order, mapped to
\* their provider
FirstRoutableKeywords ==
  {i \in RoutableKeywords :
     \A j \in RoutableKeywords :
       j < i => RuleOf(analysis.keywords[j]).primary
                  # RuleOf(analysis.keywords[i]).primary}

\* C22: when some extracted keyword's primary provider is enabled, the route
\* list is, in extraction order, one route per such provider, built from the
\* first extracted keyword mapped to it: the rule's confidence, the reason
\* "Keyword '<kw>' matched", and the rule's fallback when that provider is
\* enabled, else none.
C22_KeywordRoutes ==
  (Analyzed /\ RoutableKeywords # {}) =>
    analysis.routes
      = [n \in 1..Cardinality(FirstRoutableKeywords) |->
           [provider |->
              RuleOf(SelectIdx(analysis.keywords, FirstRoutableKeywords, 1)[n]).primary,
            confidence |->
              RuleOf(SelectIdx(analysis.keywords, FirstRoutableKeywords, 1)[n]).confidence,
            reason |->
              <<"K", "e", "y", "w", "o", "r", "d", " ", "'">>
                \o SelectIdx(analysis.keywords, FirstRoutableKeywords, 1)[n]
                \o <<"'", " ", "m", "a", "t", "c", "h", "e", "d">>,
            fallback |->
              IF \E p \in 1..Len(enabledProviders) :
                   <<enabledProviders[p]>>
                     = RuleOf(SelectIdx(analysis.keywords,
                                        FirstRoutableKeywords, 1)[n]).fallback
              THEN RuleOf(SelectIdx(analysis.keywords,
                                    FirstRoutableKeywords, 1)[n]).fallback
              ELSE <<>>]]

\* C22 witness: two extracted keywords are mapped to the same enabled
\* provider with different fallbacks, the first rule's fallback is not
\* enabled, and the single route carries the first keyword's confidence and
\* no fallback
C22_Witness ==
  /\ Analyzed
  /\ Len(analysis.keywords) = 2
  /\ RoutableKeywords = {1, 2}
  /\ RuleOf(analysis.keywords[1]).primary = RuleOf(analysis.keywords[2]).primary
  /\ RuleOf(analysis.keywords[1]).fallback # <<>>
  /\ ~IsProviderAvailable(RuleOf(analysis.keywords[1]).fallback)
  /\ IsProviderAvailable(RuleOf(analysis.keywords[2]).fallback)
  /\ Len(analysis.routes) = 1
  /\ analysis.routes[1].confidence = RuleOf(analysis.keywords[1]).confidence
  /\ analysis.routes[1].fallback = <<>>

\* the whitespace-delimited tokens of s, as pairs of their first and last
\* positions: the maximal runs of characters that are not white space
Tokens(s) ==
  {t \in (1..Len(s)) \X (1..Len(s)) :
     /\ t[1] <= t[2]
     /\ \A n \in t[1]..t[2] : ~IsSpace(s[n])
     /\ t[1] > 1 => IsSpace(s[t[1] - 1])
     /\ t[2] < Len(s) => IsSpace(s[t[2] + 1])}

\* some token of s contains k
TokenContains(s, k) ==
  \E t \in Tokens(s) :
    \E n \in t[1]..(t[2] - Len(k) + 1) : SubSeq(s, n, n + Len(k) - 1) = k

\* C23: the keywords of an analysis are exactly the configured keywords that
\* some whitespace-delimited token of the lower-cased task text contains, in
\* the order of the rule table.
C23_ExtractKeywords ==
  Analyzed =>
    analysis.keywords
      = SelectIdx([i \in 1..Len(config.keyword_to_provider) |->
                     config.keyword_to_provider[i].keyword],
                  {i \in 1..Len(config.keyword_to_provider) :
                     TokenContains(ToLowerCase(analysis.task[1]),
                                   config.keyword_to_provider[i].keyword)},
                  1)

\* C23 witness: both keywords were extracted from a text none of whose
\* words is a keyword itself (an upper-case letter, a longer word)
C23_Witness ==
  /\ Analyzed
  /\ Len(analysis.keywords) = 2
  /\ \A i \in 1..2 :
       \A t \in Tokens(analysis.task[1]) :
         SubSeq(analysis.task[1], t[1], t[2]) # analysis.keywords[i]

(***************************************************************************)
(* Properties of inferTaskType (checked under SpecInfer)                   *)
(***************************************************************************)
\* the category tests in their fixed order
CategoryTests ==
  <<[type |-> testing, keywords |-> {<<"t", "e", "s", "t">>, <<"v", "a", "l", "i", "d", "a", "t", "e">>, <<"v", "e", "r", "i", "f", "y">>}],
    [type |-> code_generation, keywords |-> {<<"c", "o", "d", "e">>, <<"b", "u", "i", "l", "d">>, <<"i", "m", "p", "l", "e", "m", "e", "n", "t">>}],
    [type |-> multimodal, keywords |-> {<<"i", "m", "a", "g", "e">>, <<"d", "e", "s", "i", "g", "n">>, <<"v", "i", "s", "u", "a", "l">>}],
    [type |-> real_time,
     keywords |-> {<<"r", "e", "a", "l", "-", "t", "i", "m", "e">>, <<"n", "e", "w", "s">>, <<"c", "u", "r", "r", "e", "n", "t">>, <<"l", "a", "t", "e", "s", "t">>, <<"l", "i", "v", "e">>}],
    [type |-> reasoning,
     keywords |-> {<<"r", "e", "a", "s", "o", "n">>, <<"a", "n", "a", "l", "y", "z", "e">>, <<"e", "x", "p", "l", "a", "i", "n">>, <<"p", "l", "a", "n">>}]>>

\* the categories that have one of their keywords in the set K
MatchedCategories(K) ==
  {c \in 1..Len(CategoryTests) : CategoryTests[c].keywords \cap K # {}}

\* C24: the inferred task type is the first category, in the order testing,
\* code_generation, multimodal, real_time, reasoning, that has one of its
\* keywords in the set of the extracted keywords (so the order of the
\* keywords does not count), and reasoning when no category has one.
C24_InferTaskType ==
  analysis.taskType # <<>> =>
    analysis.taskType
      = IF MatchedCategories({analysis.keywords[i] :
                                i \in 1..Len(analysis.keywords)}) = {}
        THEN reasoning
        ELSE CategoryTests[
               CHOOSE c \in MatchedCategories({analysis.keywords[i] :
                                                 i \in 1..Len(analysis.keywords)}) :
                 \A d \in MatchedCategories({analysis.keywords[i] :
                                               i \in 1..Len(analysis.keywords)}) :
                   c <= d].type

\* C24 witness: a keyword of a later category comes first in the list and
\* the type is the earlier category, here multimodal before real_time
C24_Witness ==
  /\ analysis.keywords = <<<<"n", "e", "w", "s">>, <<"w", "r", "i", "t", "e">>, <<"i", "m", "a", "g", "e">>>>
  /\ analysis.taskType = multimodal

(***************************************************************************)
(* Further properties of the room executor (checked under Spec)            *)
(***************************************************************************)
\* the executeInRoom invocations a step makes
NewCalls == (Len(calls) + 1)..Len(calls')

\* C25: an executeInRoom invoked for a provider with no registered room has
\* thrown at once: it has no execution id, no execution record refers to it,
\* no file is written, and the start notifications of the step are those of
\* the invocations that do have a room; a direct call leaves the records,
\* the files and the notifications as they were.
C25_NoRoomChangesNothing ==
  [][\A k \in NewCalls :
       calls'[k].provider \notin rooms =>
         /\ calls'[k].pc = "thrown"
         /\ calls'[k].thrown = NoRoomError(calls'[k].provider)
         /\ calls'[k].id = <<>>
         /\ calls'[k].status = "none"
         /\ \A id \in DOMAIN executions' : executions'[id] # k
         /\ files' = files
         /\ Cardinality({n \in (Len(events) + 1)..Len(events') :
                           events'[n].type = "room:start"})
              = Cardinality({j \in NewCalls : calls'[j].provider \in rooms})
         /\ \A n \in (Len(events) + 1)..Len(events') :
              events'[n].type # "room:complete"
         /\ calls'[k].slot = 0 =>
              (executions' = executions /\ events' = events)]_vars

\* C25 witness: a direct executeInRoom for a provider without a room has
\* thrown after an earlier execution had left a record, files and
\* notifications behind
C25_Witness ==
  /\ Len(calls) = 2
  /\ calls[1].status \in Terminal
  /\ calls[2].pc = "thrown"
  /\ calls[2].slot = 0
  /\ calls[2].provider \notin rooms
  /\ DOMAIN executions = {calls[1].id}
  /\ Len(events) = 2
  /\ OutputFileName(calls[1].id) \in DOMAIN files

\* positions of the notifications of one kind about one execution id
EventsAbout(type, id) ==
  {n \in 1..Len(events) : events[n].type = type /\ events[n].executionId = id}

EventsOfType(type) == {n \in 1..Len(events) : events[n].type = type}

\* C26: for every execution that has a record there is exactly one start
\* notification for its id; once the execution is terminal there is exactly
\* one complete notification for its id, after the start, whose success flag
\* says whether the record is completed, and none before; for an execution
\* made by executeParallel the parallel-start notification precedes its
\* start and a parallel-complete notification follows its complete.
C26_NotificationsPaired ==
  \A k \in 1..Len(calls) :
    calls[k].id # <<>> =>
      /\ Cardinality(EventsAbout("room:start", calls[k].id)) = 1
      /\ Cardinality(EventsAbout("room:complete", calls[k].id))
           = IF calls[k].status \in Terminal THEN 1 ELSE 0
      /\ \A c \in EventsAbout("room:complete", calls[k].id) :
           /\ \A s \in EventsAbout("room:start", calls[k].id) : s < c
           /\ events[c].success = (calls[k].status = "completed")
      /\ calls[k].parId # 0 =>
           /\ \E p \in EventsOfType("parallel:start") :
                \A s \in EventsAbout("room:start", calls[k].id) : p < s
           /\ \A p \in EventsOfType("parallel:complete") :
                /\ EventsAbout("room:complete", calls[k].id) # {}
                /\ \A c \in EventsAbout("room:complete", calls[k].id) : c < p

\* what the claim promises about the result call k of cs returned, read in
\* the directory fs: its output is read back, its marker exists and holds a
\* timestamp after a success and FAILED after a failure
ResultReadable(cs, fs, k) ==
  /\ ReadRoomOutput(fs, cs[k].ret.roomId) = <<cs[k].ret.output>>
  /\ IsComplete(fs, cs[k].ret.roomId)
  /\ IF cs[k].ret.success
     THEN \E t \in StartTime..MaxTime :
            fs[FlagFileName(cs[k].ret.roomId)] = ToISOString(t)
     ELSE fs[FlagFileName(cs[k].ret.roomId)] = FAILED

\* C27: the result an executeInRoom returns is readable when it returns, and
\* stays readable through every step that is not a cleanup.
C27_ResultReadableUntilCleanup ==
  [][~Cleanup =>
       \A k \in 1..Len(calls) :
         (/\ calls'[k].pc = "returned"
          /\ calls[k].pc = "returned" => ResultReadable(calls, files, k))
           => ResultReadable(calls', files', k)]_vars

\* C28: every output collectOutputs reports for a file an execution wrote
\* carries the id of that execution: getExecution finds a record under it,
\* readRoomOutput reads the reported content under it, and isComplete holds
\* for it.
C28_CollectedIdIsExecutionId ==
  \A listing \in ReadDirOutputs(files) :
    \A i \in 1..Len(listing) :
      /\ CollectOutputs(files, listing)[i].executionId \in DOMAIN executions
      /\ ReadRoomOutput(files, CollectOutputs(files, listing)[i].executionId)
           = <<CollectOutputs(files, listing)[i].content>>
      /\ IsComplete(files, CollectOutputs(files, listing)[i].executionId)

(***************************************************************************)
(* Further properties of the synthesizer (checked under SpecSynth)         *)
(***************************************************************************)
\* a.timestamp <= b.timestamp as JavaScript compares numbers: false as soon
\* as one of them is NaN
NumLeq(a, b) == ~a.nan /\ ~b.nan /\ a.val <= b.val

\* C29: the outputs collectOutputs has returned are sorted ascending by
\* timestamp: every output's timestamp is <= its successor's.
C29_OutputsSortedByTimestamp ==
  synth.pc \in {"collected", "returned"} =>
    \A i \in 1..(Len(synth.outputs) - 1) :
      NumLeq(synth.outputs[i].timestamp, synth.outputs[i + 1].timestamp)

(***************************************************************************)
(* Properties of the provider adapter (checked under SpecAdapter)          *)
(***************************************************************************)
\* C30: in the request execute sends to openai or gemini, the temperature
\* and the maximum number of output tokens are the values supplied in the
\* options, whatever they are, and the defaults 0.7 and 4096 for an option
\* that was not supplied.
C30_OptionsSentUnchanged ==
  (request.body # <<>> /\ request.provider[1] \in {openai, gemini}) =>
    /\ request.body[1].temperature
         = IF request.options.temperature # <<>>
           THEN request.options.temperature
           ELSE <<DefaultTemperature>>
    /\ request.body[1].maxTokens
         = IF request.options.maxTokens # <<>>
           THEN request.options.maxTokens[1]
           ELSE DefaultMaxTokens

(***************************************************************************)
(* Termination of executeParallel (checked under SpecLive)                 *)
(***************************************************************************)
\* the executions executeParallel call q launched: one per task
LaunchedBy(q) == {pars[q].promises[i] : i \in 1..Len(pars[q].promises)}

\* C31: under the assumption that every provider call settles, every
\* executeParallel call that is pending eventually resolves; and a call that
\* has resolved has every execution it launched in a terminal status, so it
\* stays pending as long as one provider call has not settled.
C31_ParallelEventuallyResolves ==
  /\ \A q \in 1..MaxParallel :
       (q <= Len(pars) /\ pars[q].pc = "pending")
         ~> (q <= Len(pars) /\ pars[q].pc = "resolved")
  /\ [](\A q \in 1..Len(pars) :
          pars[q].pc = "resolved" =>
            \A k \in LaunchedBy(q) : calls[k].status \in Terminal)

(***************************************************************************)
(* Running the synthesizer again (checked under SpecSynth)                 *)
(***************************************************************************)
\* the outputs a synthesizer record holds, as a set
OutputsOf(s) == {s.outputs[i] : i \in 1..Len(s.outputs)}

\* the RoomOutput was built from the consolidated report's file
IsReport(output) == output.executionId \o OutputSuffix = FinalOutputName

\* C32: when run() has written the report and is called again on the same
\* directory, it returns again, none of the outputs it collected is the
\* report final-output.md, and the outputs are those of the first call.
C32_RerunSameOutputs ==
  [][\A listing \in Listings(workDir, files) :
       (synth.pc = "returned" /\ synth.result # <<>> /\ SynthRun(listing)) =>
         /\ synth'.pc = "returned"
         /\ \A o \in OutputsOf(synth') : ~IsReport(o)
         /\ OutputsOf(synth') = OutputsOf(synth)]_vars

(***************************************************************************)
(* Cleanup by the command line (checked under SpecCLI)                     *)
(***************************************************************************)
\* the name is agent-<id>-output.md or agent-<id>-complete.flag
IsExecutionFile(name) ==
  /\ StartsWith(name, <<"a", "g", "e", "n", "t", "-">>)
  /\ EndsWith(name, <<"-", "o", "u", "t", "p", "u", "t", ".", "m", "d">>) \/ EndsWith(name, <<"-", "c", "o", "m", "p", "l", "e", "t", "e", ".", "f", "l", "a", "g">>)

\* the run of the command line is the one that calls executor.cleanup()
CleanupRun ==
  /\ cli.pc = "constructed"
  /\ ParseArgs(cli.argv).cleanup
  /\ CLIRun

\* C33: a cleanup removes every per-execution output file and marker file
\* and nothing else: every other file of the working directory, the report
\* final-output.md among them, is there afterwards with its content, and the
\* execution records are unchanged.
C33_CleanupDeletesExecutionFilesOnly ==
  [][CleanupRun =>
       /\ DOMAIN files' = {f \in DOMAIN files : ~IsExecutionFile(f)}
       /\ \A f \in DOMAIN files' : files'[f] = files[f]
       /\ executions' = executions]_vars

(***************************************************************************)
(* Marker files and output files (checked under Spec)                      *)
(***************************************************************************)
FlagSuffix == <<"-", "c", "o", "m", "p", "l", "e", "t", "e", ".", "f", "l", "a", "g">>

\* the output file that belongs to a marker file
OutputOfFlag(flag) ==
  SubSeq(flag, 1, Len(flag) - Len(FlagSuffix)) \o OutputSuffix

\* C34: whenever the working directory holds the marker file of an execution
\* id it holds the output file of that id as well, whatever executions and
\* cleanups have taken place.
C34_MarkerImpliesOutput ==
  /\ \A f \in DOMAIN files :
       EndsWith(f, FlagSuffix) => OutputOfFlag(f) \in DOMAIN files
  /\ \A id \in DOMAIN executions :
       FlagFileName(id) \in DOMAIN files => OutputFileName(id) \in DOMAIN files

\* a marker is in the directory although a cleanup has removed the files of
\* an execution that ended before
C34_Witness ==
  \E a, b \in DOMAIN executions :
    /\ RecordStatus(executions, calls, a) \in Terminal
    /\ FlagFileName(a) \notin DOMAIN files
    /\ RecordStatus(executions, calls, b) \in Terminal
    /\ FlagFileName(b) \in DOMAIN files

(***************************************************************************)
(* Further properties of a command line run (checked under SpecCLI)        *)
(***************************************************************************)
\* the executeInRoom calls whose execution has status running
Running == {k \in 1..Len(calls) : calls[k].status = "running"}

\* C35: once the router is constructed, the number of executions that are
\* running at the same time is at most getMaxParallelRooms(), the smaller of
\* the configured max_parallel_rooms and the number of enabled providers.
C35_RunningWithinMaxParallelRooms ==
  router = "ready" => Cardinality(Running) <= GetMaxParallelRooms

(***************************************************************************)
(* Router and adapter together (checked under SpecRouter)                  *)
(***************************************************************************)
\* C36: once the router is constructed, the adapter of every provider the
\* router lists as enabled can be constructed in the same environment: the
\* provider is in the adapter's table and its credential variable is set.
C36_EnabledProviderHasAdapter ==
  router = "ready" =>
    \A i \in 1..Len(enabledProviders) :
      AdapterConstructorError(enabledProviders[i], env) = <<>>

\* C37: in a run of the command line every provider of the route list has a
\* registered room: no executeInRoom call ends with the error 'No room
\* registered', and the executeParallel call is never rejected.
C37_RoutedProvidersHaveRooms ==
  /\ cli.pc \in {"executing", "done"} =>
       \A i \in 1..Len(analysis.routes) : analysis.routes[i].provider \in rooms
  /\ \A k \in 1..Len(calls) :
       calls[k].pc # "thrown" /\ calls[k].thrown = <<>>
  /\ \A q \in 1..Len(pars) : ~pars[q].rejected /\ pars[q].pc # "rejected"

\* a parallel run over two routes has resolved
C37_Witness ==
  /\ cli.mode = "parallel"
  /\ Len(analysis.routes) = MaxCalls
  /\ Len(pars) = 1
  /\ pars[1].pc = "resolved"
  /\ \A k \in 1..Len(calls) : calls[k].provider \in rooms

\* the output was collected from the output file of an execution of this run
FromThisRun(output) ==
  \E k \in 1..Len(calls) :
    /\ calls[k].id # <<>>
    /\ output.executionId \o OutputSuffix = OutputFileName(calls[k].id)

\* C38: the report a run of the command line has written has one section
\* per routed provider, and every output it was synthesized from is the
\* output of an execution of this run.
C38_ReportOfThisRunOnly ==
  (cli.pc = "done" /\ synth.result # <<>>) =>
    /\ Len(synth.result[1].sections) = Len(analysis.routes)
    /\ \A i \in 1..Len(synth.outputs) : FromThisRun(synth.outputs[i])

(***************************************************************************)
(* Availability of routed providers (checked under SpecRouter)             *)
(***************************************************************************)
\* C39: every route of an analysis names an enabled provider, and its
\* fallback is none or an enabled provider.
C39_RoutesNameEnabledProviders ==
  Analyzed =>
    \A i \in 1..Len(analysis.routes) :
      /\ SeqContains(enabledProviders, analysis.routes[i].provider)
      /\ analysis.routes[i].fallback # <<>> =>
           SeqContains(enabledProviders, analysis.routes[i].fallback[1])

\* an analysis with a route that kept its fallback, made while some provider
\* the configuration's rules name was not enabled
C39_Witness ==
  /\ Analyzed
  /\ \E i \in 1..Len(analysis.routes) : analysis.routes[i].fallback # <<>>
  /\ \E j \in 1..Len(config.keyword_to_provider) :
       /\ SeqContains(analysis.keywords, config.keyword_to_provider[j].keyword)
       /\ ~SeqContains(enabledProviders, config.keyword_to_provider[j].primary)
====
